---------------------------- MODULE Spec2Model ----------------------------
(***************************************************************************)
(* A model of the reversi tournament engine: the packed board and its      *)
(* move generator (rt/state.py), the two agents and the alpha-beta search  *)
(* (rt/agent.py), the protocol engine (rt/engine.py) and the referee loop  *)
(* (rt/server.py).                                                         *)
(*                                                                         *)
(* A board (a Python int used as a bit set) is the set of its set bit      *)
(* positions: | is \cup, & is \cap, ^ is the symmetric difference and the  *)
(* population count is Cardinality.  Python ints do not overflow.          *)
(***************************************************************************)
EXTENDS Integers, Sequences, FiniteSets, TLC

(***************************************************************************)
(* Bounds of the model.                                                    *)
(***************************************************************************)
\* Longest of the legal openings enumerated for the `position` lines of the
\* model (two longer fixed games are among its lines whatever the bound).
MaxMoves == 0
\* Most lines the model lets the engine write to its output stream.
MaxOut == 6
\* The turns of a game in which the model follows every legal move; later
\* turns follow the games on record.
MaxPlies == 3

(***************************************************************************)
(* rt/state.py: the board.                                                 *)
(***************************************************************************)
BOARD_SIZE == 8

\* Python's None.
None == [none |-> TRUE]

\* The members of the enum Player; .value is the member's letter.
Black == [value |-> "b"]
White == [value |-> "w"]
Player == {Black, White}

opponent(player) == IF player = Black THEN White ELSE Black

rc2ind(row, col) == row * BOARD_SIZE + col

ind2board(ind) == {ind}

rc2board(row, col) == ind2board(rc2ind(row, col))

is_occupied(row, col, board) == (rc2board(row, col) \cap board) # {}

is_inbounds(row, col) ==
    row >= 0 /\ row < BOARD_SIZE /\ col >= 0 /\ col < BOARD_SIZE

\* a ^ b on bit sets.
Xor(a, b) == (a \ b) \cup (b \ a)

\* The body of the loop `for i in range(1, BOARD_SIZE)` from step i on, with
\* the pattern collected so far.
RECURSIVE scan_direction(_, _, _, _, _, _, _, _)
scan_direction(row, col, dr, dc, my_board, opponent_board, i, pattern) ==
    IF i >= BOARD_SIZE THEN {}
    ELSE LET r == row + dr * i
             c == col + dc * i
         IN  IF ~is_inbounds(r, c) THEN {}
             ELSE IF is_occupied(r, c, my_board) THEN pattern
             ELSE IF is_occupied(r, c, opponent_board)
                  THEN scan_direction(row, col, dr, dc, my_board, opponent_board,
                                      i + 1, pattern \cup rc2board(r, c))
             ELSE {}

find_flips_along_direction(row, col, dr, dc, my_board, opponent_board) ==
    scan_direction(row, col, dr, dc, my_board, opponent_board, 1, {})

\* find_flips without the last direction, down and to the right.
find_flips_seven_directions(row, col, my_board, opponent_board) ==
    find_flips_along_direction(row, col, 0, 1, my_board, opponent_board)
    \cup find_flips_along_direction(row, col, 0, -1, my_board, opponent_board)
    \cup find_flips_along_direction(row, col, 1, 0, my_board, opponent_board)
    \cup find_flips_along_direction(row, col, -1, 0, my_board, opponent_board)
    \cup find_flips_along_direction(row, col, -1, -1, my_board, opponent_board)
    \cup find_flips_along_direction(row, col, 1, -1, my_board, opponent_board)
    \cup find_flips_along_direction(row, col, -1, 1, my_board, opponent_board)

find_flips(row, col, my_board, opponent_board) ==
    find_flips_along_direction(row, col, 0, 1, my_board, opponent_board)
    \cup find_flips_along_direction(row, col, 0, -1, my_board, opponent_board)
    \cup find_flips_along_direction(row, col, 1, 0, my_board, opponent_board)
    \cup find_flips_along_direction(row, col, -1, 0, my_board, opponent_board)
    \cup find_flips_along_direction(row, col, -1, -1, my_board, opponent_board)
    \cup find_flips_along_direction(row, col, 1, -1, my_board, opponent_board)
    \cup find_flips_along_direction(row, col, -1, 1, my_board, opponent_board)
    \cup find_flips_along_direction(row, col, 1, 1, my_board, opponent_board)

(***************************************************************************)
(* Python's str.  A string is the sequence of its characters, each a       *)
(* one-character TLA+ string, so that len, lower, strip, split, ord, chr   *)
(* and int are computed the way Python computes them.                      *)
(***************************************************************************)
DIGITS == <<"0", "1", "2", "3", "4", "5", "6", "7", "8", "9">>
UPPERCASE ==
    <<"A", "B", "C", "D", "E", "F", "G", "H", "I", "J", "K", "L", "M", "N", "O", "P", "Q", "R", "S", "T", "U", "V", "W", "X", "Y", "Z">>
LOWERCASE ==
    <<"a", "b", "c", "d", "e", "f", "g", "h", "i", "j", "k", "l", "m", "n", "o", "p", "q", "r", "s", "t", "u", "v", "w", "x", "y", "z">>
\* The other characters of the model's lines, with their codes.
PUNCTUATION ==
    { <<" ", 32>>, <<"+", 43>>, <<"-", 45>>, <<".", 46>>, <<"<", 60>>,
      <<"=", 61>>, <<">", 62>>, <<"_", 95>> }

IndexIn(chars, ch) == CHOOSE i \in 1..Len(chars) : chars[i] = ch
IsIn(chars, ch) == \E i \in 1..Len(chars) : chars[i] = ch

ord(ch) ==
    IF IsIn(DIGITS, ch) THEN 47 + IndexIn(DIGITS, ch)
    ELSE IF IsIn(UPPERCASE, ch) THEN 64 + IndexIn(UPPERCASE, ch)
    ELSE IF IsIn(LOWERCASE, ch) THEN 96 + IndexIn(LOWERCASE, ch)
    ELSE (CHOOSE p \in PUNCTUATION : p[1] = ch)[2]

chr(code) ==
    IF code >= 48 /\ code <= 57 THEN DIGITS[code - 47]
    ELSE IF code >= 65 /\ code <= 90 THEN UPPERCASE[code - 64]
    ELSE IF code >= 97 /\ code <= 122 THEN LOWERCASE[code - 96]
    ELSE (CHOOSE p \in PUNCTUATION : p[2] = code)[1]

\* str.lower()
lower(str) ==
    [i \in 1..Len(str) |->
        IF IsIn(UPPERCASE, str[i]) THEN chr(ord(str[i]) + 32) ELSE str[i]]

IsSpace(ch) == ch = " "

\* str.strip(): the line without its leading and trailing whitespace (the
\* line end included).
strip(str) ==
    LET kept == {i \in 1..Len(str) : ~IsSpace(str[i])}
    IN  IF kept = {} THEN <<>>
        ELSE SubSeq(str, CHOOSE i \in kept : \A j \in kept : i <= j,
                         CHOOSE i \in kept : \A j \in kept : i >= j)

\* str.split(): the maximal runs of non-whitespace characters, in order.
split(str) ==
    LET n == Len(str)
        starts == SelectSeq([i \in 1..n |-> i],
                      LAMBDA i : ~IsSpace(str[i]) /\ (i = 1 \/ IsSpace(str[i - 1])))
        end(i) == CHOOSE j \in i..n :
                      /\ \A k \in i..j : ~IsSpace(str[k])
                      /\ (j = n \/ IsSpace(str[j + 1]))
    IN  [w \in 1..Len(starts) |-> SubSeq(str, starts[w], end(starts[w]))]

\* str.split(sep) for a one-character separator: the pieces between the
\* separators, empty ones included.
split_on(str, sep) ==
    LET n == Len(str)
        cuts == <<0>> \o SelectSeq([i \in 1..n |-> i], LAMBDA i : str[i] = sep)
                    \o <<n + 1>>
    IN  [p \in 1..(Len(cuts) - 1) |-> SubSeq(str, cuts[p] + 1, cuts[p + 1] - 1)]

\* Whether int(str) returns: an optional sign, then decimal digits only.  (The
\* lines of the model hold no underscore inside a number.)
IsIntLiteral(str) ==
    LET digits == IF Len(str) > 0 /\ str[1] \in {"+", "-"} THEN Tail(str) ELSE str
    IN  Len(digits) > 0 /\ \A i \in 1..Len(digits) : IsIn(DIGITS, digits[i])

\* int(str) of a string IsIntLiteral accepts.
RECURSIVE digits_value(_)
digits_value(digits) ==
    IF Len(digits) = 0 THEN 0
    ELSE 10 * digits_value(SubSeq(digits, 1, Len(digits) - 1))
         + (ord(digits[Len(digits)]) - ord("0"))

int(str) ==
    IF str[1] = "-" THEN 0 - digits_value(Tail(str))
    ELSE IF str[1] = "+" THEN digits_value(Tail(str))
    ELSE digits_value(str)

\* str(n) of an int n >= 0.
RECURSIVE int_to_str(_)
int_to_str(n) ==
    IF n < 10 THEN <<chr(ord("0") + n)>>
    ELSE int_to_str(n \div 10) \o <<chr(ord("0") + (n % 10))>>

\* words joined by single spaces: " ".join(words)
RECURSIVE join(_)
join(words) ==
    IF Len(words) = 0 THEN <<>>
    ELSE IF Len(words) = 1 THEN words[1]
    ELSE words[1] \o <<" ">> \o join(Tail(words))

(***************************************************************************)
(* rt/state.py: moves.                                                     *)
(***************************************************************************)
\* The dataclass Move.
Move(row, col, flip_board, player) ==
    [row |-> row, col |-> col, flip_board |-> flip_board, player |-> player]

\* iter_board: the cells in the order the two nested loops yield them.
iter_board ==
    [k \in 1..(BOARD_SIZE * BOARD_SIZE) |->
        [row |-> (k - 1) \div BOARD_SIZE, col |-> (k - 1) % BOARD_SIZE]]

\* The flip board find_moves computes for a cell; an occupied cell is skipped
\* before find_flips is called, which leaves it without a flip board.
cell_flips(row, col, my_board, opponent_board) ==
    IF ~is_occupied(row, col, my_board) /\ ~is_occupied(row, col, opponent_board)
    THEN find_flips(row, col, my_board, opponent_board)
    ELSE {}

\* A move is appended, in iteration order, for every cell whose flip board is
\* not 0.
find_moves(player, my_board, opponent_board) ==
    LET candidates ==
            [k \in 1..Len(iter_board) |->
                Move(iter_board[k].row, iter_board[k].col,
                     cell_flips(iter_board[k].row, iter_board[k].col,
                                my_board, opponent_board),
                     player)]
    IN  SelectSeq(candidates, LAMBDA m : m.flip_board # {})

\* A GameState object's fields.
GameState(black_board, white_board, last_played) ==
    [black_board |-> black_board, white_board |-> white_board,
     last_played |-> last_played]

start_position ==
    GameState(rc2board(3, 4) \cup rc2board(4, 3),
              rc2board(3, 3) \cup rc2board(4, 4),
              White)

\* The module-level possible_moves: a fresh list in generator order.
possible_moves(st, player) ==
    IF player = Black
    THEN find_moves(player, st.black_board, st.white_board)
    ELSE find_moves(player, st.white_board, st.black_board)

\* _place_token that sets the bit on the black board whoever moves.
place_token_on_black(st, row, col, player) ==
    [st EXCEPT !.black_board = @ \cup rc2board(row, col)]

place_token(st, row, col, player) ==
    LET pattern == rc2board(row, col)
    IN  IF player = Black
        THEN [st EXCEPT !.black_board = @ \cup pattern]
        ELSE [st EXCEPT !.white_board = @ \cup pattern]

\* next_player that never lets the side that has just played move again.
next_player_without_pass(st) ==
    IF Len(possible_moves(st, opponent(st.last_played))) > 0
    THEN opponent(st.last_played)
    ELSE None

next_player(st) ==
    IF st.last_played = Black
    THEN IF Len(possible_moves(st, White)) > 0 THEN White
         ELSE IF Len(possible_moves(st, Black)) > 0 THEN Black
         ELSE None
    ELSE IF Len(possible_moves(st, Black)) > 0 THEN Black
         ELSE IF Len(possible_moves(st, White)) > 0 THEN White
         ELSE None

\* make_move that flips the stones on the black board only.
make_move_one_sided(st, move) ==
    LET new_state == place_token(
            GameState(st.black_board, st.white_board, move.player),
            move.row, move.col, move.player)
    IN  [new_state EXCEPT !.black_board = Xor(@, move.flip_board)]

make_move(st, move) ==
    LET new_state == place_token(
            GameState(st.black_board, st.white_board, move.player),
            move.row, move.col, move.player)
    IN  [new_state EXCEPT !.black_board = Xor(@, move.flip_board),
                          !.white_board = Xor(@, move.flip_board)]

col_to_string(col) == chr(col + ord("a"))

\* Move.__str__ that writes the row as it is stored, counted from 0.
Move_str_from_zero(move) ==
    <<col_to_string(move.col)>> \o int_to_str(move.row) \o <<move.player.value>>

\* Move.__str__: f"{col_to_string(self.col)}{self.row + 1}{self.player.value}"
Move_str(move) ==
    <<col_to_string(move.col)>> \o int_to_str(move.row + 1) \o <<move.player.value>>

\* An exception propagating out of a call: its type and the function that
\* raised it.
Raise(type, origin) == [raised |-> type, origin |-> origin]

IsRaise(v) == "raised" \in DOMAIN v

\* parse_move_string: Raise("ValueError", ...) or [row, col, player].
parse_move_string(move) ==
    IF Len(move) # 3 THEN Raise("ValueError", "parse_move_string")
    ELSE LET lowered == lower(move)
         IN  IF ~IsIntLiteral(<<lowered[2]>>)
             THEN Raise("ValueError", "parse_move_string")
             ELSE LET col == ord(lowered[1]) - ord("a")
                      row == int(<<lowered[2]>>) - 1
                      player == lowered[3]
                  IN  IF ~is_inbounds(row, col) \/ (player # "b" /\ player # "w")
                      THEN Raise("ValueError", "parse_move_string")
                      ELSE [row |-> row, col |-> col,
                            player |-> IF player = "b" THEN Black ELSE White]

\* Move.from_str below its first line, with what parse_move_string returned
\* or raised.
move_of_parsed(parsed, st) ==
    IF IsRaise(parsed) THEN parsed
    ELSE Move(parsed.row, parsed.col,
              IF parsed.player = Black
              THEN find_flips(parsed.row, parsed.col,
                              st.black_board, st.white_board)
              ELSE find_flips(parsed.row, parsed.col,
                              st.white_board, st.black_board),
              parsed.player)

\* Move.from_str(move, state)
Move_from_str(move, st) == move_of_parsed(parse_move_string(move), st)

count(st, player) ==
    IF player = Black THEN Cardinality(st.black_board)
    ELSE Cardinality(st.white_board)

\* winner that gives a drawn game to Black.
winner_black_on_draw(st) ==
    IF count(st, Black) >= count(st, White) THEN Black ELSE White

winner(st) ==
    LET b == count(st, Black)
        w == count(st, White)
    IN  IF b > w THEN Black ELSE IF w > b THEN White ELSE None

(***************************************************************************)
(* The positions of the model: the move tokens its `position` lines carry  *)
(* and the states their replay configures.                                 *)
(***************************************************************************)
\* The loop `for m in moves[1:]` of parse_position over the tokens `moves`
\* from moves[i] on: the exception Move.from_str raises, or the state after
\* the last token.
RECURSIVE replay(_, _, _)

\* state = state.make_move(move), then the next token.
replay_move(st, moves, i, move) ==
    IF IsRaise(move) THEN move
    ELSE replay(make_move(st, move), moves, i + 1)

replay(st, moves, i) ==
    IF i > Len(moves) THEN st
    ELSE replay_move(st, moves, i, Move_from_str(moves[i], st))

\* The token sequences of the legal openings of at most n moves from st.
RECURSIVE legal_openings(_, _)

\* The openings that start with one of the moves `legal` of the side to move.
openings_with(st, n, legal) ==
    {<<>>} \cup
    UNION {{<<Move_str(legal[i])>> \o rest :
               rest \in legal_openings(make_move(st, legal[i]), n - 1)} :
           i \in 1..Len(legal)}

openings_of(st, n, next) ==
    IF n = 0 \/ next = None THEN {<<>>}
    ELSE openings_with(st, n, possible_moves(st, next))

legal_openings(st, n) == openings_of(st, n, next_player(st))

\* A complete legal game of nine moves (White is wiped out), and a legal
\* opening of eight moves after which Black must pass.
GAME_OVER_LINE ==
    <<<<"d", "3", "b">>, <<"c", "3", "w">>, <<"b", "3", "b">>, <<"d", "2", "w">>, <<"e", "1", "b">>,
      <<"d", "6", "w">>, <<"d", "7", "b">>, <<"e", "3", "w">>, <<"f", "4", "b">>>>
FORCED_PASS_LINE ==
    <<<<"d", "3", "b">>, <<"c", "3", "w">>, <<"b", "3", "b">>, <<"b", "2", "w">>,
      <<"f", "5", "b">>, <<"a", "3", "w">>, <<"a", "1", "b">>, <<"c", "1", "w">>>>

\* A legal opening of three moves after which the passes of a search of depth
\* three prefer three different first moves.
THREE_MOVE_OPENING ==
    <<<<"f", "5", "b">>, <<"f", "4", "w">>, <<"e", "3", "b">>>>

\* Two complete legal games of sixty moves: one that White wins 38 to 26 after
\* Black passes twice at the end, and one drawn 32 to 32.
FULL_GAME_LINE ==
    <<<<"d", "3", "b">>, <<"c", "3", "w">>, <<"b", "3", "b">>, <<"e", "3", "w">>, <<"f", "3", "b">>,
      <<"c", "5", "w">>, <<"f", "6", "b">>, <<"g", "2", "w">>, <<"b", "5", "b">>, <<"c", "6", "w">>,
      <<"f", "4", "b">>, <<"a", "5", "w">>, <<"h", "1", "b">>, <<"f", "5", "w">>, <<"d", "6", "b">>,
      <<"e", "7", "w">>, <<"d", "7", "b">>, <<"e", "6", "w">>, <<"d", "8", "b">>, <<"c", "4", "w">>,
      <<"c", "7", "b">>, <<"b", "7", "w">>, <<"a", "8", "b">>, <<"b", "6", "w">>, <<"a", "4", "b">>,
      <<"f", "8", "w">>, <<"g", "4", "b">>, <<"b", "4", "w">>, <<"e", "8", "b">>, <<"a", "3", "w">>,
      <<"a", "7", "b">>, <<"g", "5", "w">>, <<"g", "8", "b">>, <<"c", "2", "w">>, <<"h", "4", "b">>,
      <<"g", "3", "w">>, <<"a", "2", "b">>, <<"h", "3", "w">>, <<"c", "1", "b">>, <<"d", "1", "w">>,
      <<"d", "2", "b">>, <<"e", "1", "w">>, <<"f", "1", "b">>, <<"f", "7", "w">>, <<"a", "6", "b">>,
      <<"h", "6", "w">>, <<"e", "2", "b">>, <<"b", "8", "w">>, <<"g", "7", "b">>, <<"c", "8", "w">>,
      <<"h", "5", "b">>, <<"g", "6", "w">>, <<"h", "2", "b">>, <<"h", "7", "w">>, <<"h", "8", "b">>,
      <<"g", "1", "w">>, <<"b", "2", "b">>, <<"f", "2", "w">>, <<"a", "1", "w">>, <<"b", "1", "w">>>>
DRAWN_GAME_LINE ==
    <<<<"d", "3", "b">>, <<"c", "5", "w">>, <<"f", "6", "b">>, <<"e", "3", "w">>, <<"f", "3", "b">>,
      <<"g", "7", "w">>, <<"c", "6", "b">>, <<"f", "2", "w">>, <<"e", "6", "b">>, <<"c", "3", "w">>,
      <<"b", "5", "b">>, <<"f", "5", "w">>, <<"g", "5", "b">>, <<"g", "6", "w">>, <<"g", "4", "b">>,
      <<"g", "3", "w">>, <<"e", "2", "b">>, <<"f", "4", "w">>, <<"b", "3", "b">>, <<"a", "3", "w">>,
      <<"h", "2", "b">>, <<"h", "3", "w">>, <<"h", "8", "b">>, <<"e", "7", "w">>, <<"d", "6", "b">>,
      <<"f", "1", "w">>, <<"b", "2", "b">>, <<"b", "7", "w">>, <<"d", "7", "b">>, <<"d", "8", "w">>,
      <<"b", "4", "b">>, <<"h", "1", "w">>, <<"e", "1", "b">>, <<"c", "1", "w">>, <<"c", "2", "b">>,
      <<"a", "5", "w">>, <<"a", "1", "b">>, <<"b", "1", "w">>, <<"a", "4", "b">>, <<"d", "2", "w">>,
      <<"h", "5", "b">>, <<"b", "6", "w">>, <<"f", "7", "b">>, <<"h", "6", "w">>, <<"h", "7", "b">>,
      <<"d", "1", "w">>, <<"a", "2", "b">>, <<"g", "8", "w">>, <<"f", "8", "b">>, <<"e", "8", "w">>,
      <<"a", "7", "b">>, <<"c", "4", "w">>, <<"c", "8", "b">>, <<"a", "6", "w">>, <<"c", "7", "b">>,
      <<"a", "8", "w">>, <<"h", "4", "b">>, <<"b", "8", "w">>, <<"g", "1", "b">>, <<"g", "2", "w">>>>

\* The games on record, and the states each of them goes through: the state
\* after its first `played` moves.
RecordedGames ==
    {GAME_OVER_LINE, FORCED_PASS_LINE, FULL_GAME_LINE, DRAWN_GAME_LINE}

RecordedPositions ==
    UNION {{[played |-> k, st |-> replay(start_position, SubSeq(g, 1, k), 1)] :
                k \in 0..Len(g)} : g \in RecordedGames}

LegalTokenLists ==
    legal_openings(start_position, MaxMoves) \cup {GAME_OVER_LINE, FORCED_PASS_LINE}

\* Well-formed tokens that are no legal move where they stand: no flips (a1b),
\* an occupied cell (d4b), the side that is not to move (e3w, then f6b after
\* d3b, which takes White's last stone).
IllegalTokenLists ==
    {<<<<"a", "1", "b">>>>, <<<<"d", "4", "b">>>>, <<<<"e", "3", "w">>>>,
     <<<<"d", "3", "b">>, <<"f", "6", "b">>>>}

\* The states agent.set_state receives in the model.
SearchedStates ==
    {replay(start_position, tokens, 1) : tokens \in LegalTokenLists \cup IllegalTokenLists}

(***************************************************************************)
(* rt/agent.py: the search.                                                *)
(***************************************************************************)
\* The current score_func has a maximum value of 64.
INF_SCORE == 65

\* The default of iterative_deepening's max_depth, which SimpleAgent uses.
DEFAULT_MAX_DEPTH == 3

Max(a, b) == IF a >= b THEN a ELSE b
Min(a, b) == IF a <= b THEN a ELSE b

\* The dataclass DfsResult, with the list the memoized possible_moves holds
\* for the searched GameState object once the call has returned (`memo`).
DfsResult(moves, score, remaining, memo) ==
    [moves |-> moves, score |-> score, remaining |-> remaining, memo |-> memo]

\* An evaluation that weighs each side by the square of its discs.
score_func_of_squares(st, player) ==
    count(st, player) * count(st, player)
        - count(st, opponent(player)) * count(st, opponent(player))

score_func(st, player) == count(st, player) - count(st, opponent(player))

\* moves.sort(key=lambda e: e != previous_best_move): list.sort is stable and
\* False sorts before True.
sort_previous_best_first(moves, previous_best_move) ==
    SelectSeq(moves, LAMBDA e : e = previous_best_move)
    \o SelectSeq(moves, LAMBDA e : e # previous_best_move)

\* possible_moves is wrapped in lru_cache and a GameState hashes by identity:
\* a call returns the list object of the first call on the same GameState
\* object and player, as later sorts in place have left it.  `memo` is the
\* cache entry of the object: <<list>>, or <<>> (NoMemo) when the object has
\* no entry for the player yet.
NoMemo == <<>>

memoized_moves(st, player, memo) ==
    IF Len(memo) = 0 THEN possible_moves(st, player) ELSE memo[1]

RECURSIVE deepening_loop(_, _, _, _, _, _)
RECURSIVE dfs_alpha_beta(_, _, _, _, _, _, _, _)
RECURSIVE maximizing_loop(_, _, _, _, _, _, _, _, _, _, _)
RECURSIVE minimizing_loop(_, _, _, _, _, _, _, _, _, _, _)

\* The update that keeps the move but not the line the child returned.
update_best_without_child_line(better, m, res, acc) ==
    [moves |-> IF better THEN <<m>> ELSE acc.moves,
     score |-> IF better THEN res.score ELSE acc.score,
     remaining |-> acc.remaining \/ res.remaining]

\* best_moves, score and remaining after the child result res of move m:
\* `better` is res.score > score (maximizing) or res.score < score.
update_best(better, m, res, acc) ==
    [moves |-> IF better THEN <<m>> \o res.moves ELSE acc.moves,
     score |-> IF better THEN res.score ELSE acc.score,
     remaining |-> acc.remaining \/ res.remaining]

\* The rest of the maximizing loop's body once the recursive call on moves[i]
\* has returned res and `best` holds the updated locals.
maximizing_step(st, moves, i, alpha, beta, depth, player, max_depth, prev_best_variation, res, best, memo) ==
    IF res.score >= beta
    THEN DfsResult(best.moves, best.score, best.remaining, memo)
    ELSE maximizing_loop(st, moves, i + 1, Max(alpha, best.score), beta,
                         depth, player, max_depth, prev_best_variation,
                         best, memo)

maximizing_body(st, moves, i, alpha, beta, depth, player, max_depth, prev_best_variation, acc, memo, res) ==
    maximizing_step(st, moves, i, alpha, beta, depth, player, max_depth,
                    prev_best_variation, res,
                    update_best(res.score > acc.score, moves[i], res, acc),
                    memo)

\* The `for m in moves` loop of the maximizing branch from moves[i] on.
maximizing_loop(st, moves, i, alpha, beta, depth, player, max_depth, prev_best_variation, acc, memo) ==
    IF i > Len(moves) THEN DfsResult(acc.moves, acc.score, acc.remaining, memo)
    ELSE maximizing_body(st, moves, i, alpha, beta, depth, player, max_depth,
                         prev_best_variation, acc, memo,
                         dfs_alpha_beta(make_move(st, moves[i]), alpha, beta,
                                        depth + 1, player, max_depth,
                                        prev_best_variation, NoMemo))

\* The minimizing loop's body that breaks on `res.score <= beta`.
minimizing_step_cut_at_beta(st, moves, i, alpha, beta, depth, player, max_depth, prev_best_variation, res, best, memo) ==
    IF res.score <= beta
    THEN DfsResult(best.moves, best.score, best.remaining, memo)
    ELSE minimizing_loop(st, moves, i + 1, alpha, Min(beta, best.score),
                         depth, player, max_depth, prev_best_variation,
                         best, memo)

\* The rest of the minimizing loop's body once the recursive call on moves[i]
\* has returned res and `best` holds the updated locals.
minimizing_step(st, moves, i, alpha, beta, depth, player, max_depth, prev_best_variation, res, best, memo) ==
    IF res.score <= alpha
    THEN DfsResult(best.moves, best.score, best.remaining, memo)
    ELSE minimizing_loop(st, moves, i + 1, alpha, Min(beta, best.score),
                         depth, player, max_depth, prev_best_variation,
                         best, memo)

minimizing_body(st, moves, i, alpha, beta, depth, player, max_depth, prev_best_variation, acc, memo, res) ==
    minimizing_step(st, moves, i, alpha, beta, depth, player, max_depth,
                    prev_best_variation, res,
                    update_best(res.score < acc.score, moves[i], res, acc),
                    memo)

\* The `for m in moves` loop of the minimizing branch from moves[i] on.
minimizing_loop(st, moves, i, alpha, beta, depth, player, max_depth, prev_best_variation, acc, memo) ==
    IF i > Len(moves) THEN DfsResult(acc.moves, acc.score, acc.remaining, memo)
    ELSE minimizing_body(st, moves, i, alpha, beta, depth, player, max_depth,
                         prev_best_variation, acc, memo,
                         dfs_alpha_beta(make_move(st, moves[i]), alpha, beta,
                                        depth + 1, player, max_depth,
                                        prev_best_variation, NoMemo))

\* moves = state.possible_moves(next_player), sorted when the previous best
\* variation reaches this depth.
ordered_moves(cached, depth, prev_best_variation) ==
    IF depth < Len(prev_best_variation)
    THEN sort_previous_best_first(cached, prev_best_variation[depth + 1])
    ELSE cached

\* The two branches of dfs_alpha_beta over the ordered move list, which is
\* also what the memoized list of the object `st` holds from now on.
search_moves(st, alpha, beta, depth, player, max_depth, prev_best_variation, maximizing_player, moves) ==
    IF maximizing_player
    THEN maximizing_loop(st, moves, 1, alpha, beta, depth, player, max_depth,
                         prev_best_variation,
                         [moves |-> <<>>, score |-> -INF_SCORE,
                          remaining |-> FALSE],
                         <<moves>>)
    ELSE minimizing_loop(st, moves, 1, alpha, beta, depth, player, max_depth,
                         prev_best_variation,
                         [moves |-> <<>>, score |-> INF_SCORE,
                          remaining |-> FALSE],
                         <<moves>>)

\* dfs_alpha_beta below the depth test, with next_player = state.next_player().
search_node(st, alpha, beta, depth, player, max_depth, prev_best_variation, memo, next) ==
    IF next = None
    THEN DfsResult(<<>>, score_func(st, player), FALSE, memo)
    ELSE search_moves(st, alpha, beta, depth, player, max_depth,
                      prev_best_variation, next = player,
                      ordered_moves(memoized_moves(st, next, memo), depth,
                                    prev_best_variation))

\* `memo` is the memoized move list of the object `st` for its next player
\* (NoMemo: no entry yet).  Every state below the root is a new object made by
\* make_move, so only the root's entry outlives a pass.
dfs_alpha_beta(st, alpha, beta, depth, player, max_depth, prev_best_variation, memo) ==
    IF depth >= max_depth
    THEN DfsResult(<<>>, score_func(st, player), TRUE, memo)
    ELSE search_node(st, alpha, beta, depth, player, max_depth,
                     prev_best_variation, memo, next_player(st))

\* The body of the deepening loop once the pass at current_depth returned res.
deepening_step(st, player, max_depth, current_depth, res) ==
    IF ~res.remaining \/ current_depth = max_depth
    THEN res
    ELSE deepening_loop(st, player, max_depth, current_depth + 1,
                        res.moves, res.memo)

\* The loop `for current_depth in range(1, max_depth + 1)` from current_depth
\* on; `memo` is the root object's memoized move list.  With max_depth < 1 the
\* loop body never runs and the function returns None.
deepening_loop(st, player, max_depth, current_depth, prev_best_variation, memo) ==
    IF current_depth > max_depth THEN None
    ELSE deepening_step(st, player, max_depth, current_depth,
                        dfs_alpha_beta(st, -INF_SCORE, INF_SCORE, 0, player,
                                       current_depth, prev_best_variation, memo))

iterative_deepening(st, player, max_depth) ==
    deepening_loop(st, player, max_depth, 1, <<>>, NoMemo)

\* The search is a function of the state and the player alone: its results for
\* the states of SearchedStates are evaluated once and looked up afterwards.
DeepeningResults ==
    {[st |-> st, player |-> player,
      res |-> iterative_deepening(st, player, DEFAULT_MAX_DEPTH)] :
        st \in SearchedStates, player \in Player}

looked_up(st, player, found) ==
    IF found = {} THEN iterative_deepening(st, player, DEFAULT_MAX_DEPTH)
    ELSE (CHOOSE e \in found : TRUE).res

\* iterative_deepening(state, player) with the default max_depth.
deepening_result(st, player) ==
    looked_up(st, player,
              {e \in DeepeningResults : e.st = st /\ e.player = player})

(***************************************************************************)
(* rt/agent.py: the agents.                                                *)
(***************************************************************************)
\* RandomAgent(player) and SimpleAgent(player): the object's class and fields.
RandomAgent(player) == [class |-> "RandomAgent", player |-> player, state |-> None]
SimpleAgent(player) == [class |-> "SimpleAgent", player |-> player, state |-> None]

\* agent.set_state(state)
set_state(ag, st) == [ag EXCEPT !.state = st]

\* RandomAgent.search: every outcome, [returned |-> str(random.choice(moves))]
\* for each choice; random.choice raises IndexError on an empty list.
RandomAgent_search(ag) ==
    LET moves == possible_moves(ag.state, ag.player)
    IN  IF Len(moves) = 0 THEN {Raise("IndexError", "search")}
        ELSE {[returned |-> Move_str(moves[i])] : i \in 1..Len(moves)}

\* SimpleAgent.search: the except clause logs and re-raises; res.moves[0]
\* raises IndexError when the principal variation is empty.
\* The last move of the principal variation instead of its first.
last_move_of(res) ==
    IF Len(res.moves) = 0 THEN {Raise("IndexError", "search")}
    ELSE {[returned |-> Move_str(res.moves[Len(res.moves)])]}

\* return str(res.moves[0])
best_move_of(res) ==
    IF Len(res.moves) = 0 THEN {Raise("IndexError", "search")}
    ELSE {[returned |-> Move_str(res.moves[1])]}

SimpleAgent_search(ag) == best_move_of(deepening_result(ag.state, ag.player))

\* agent.search(btime, wtime, binc, winc): the time controls are not used.
Agent_search(ag) ==
    IF ag.class = "RandomAgent" THEN RandomAgent_search(ag)
    ELSE SimpleAgent_search(ag)

(***************************************************************************)
(* rt/engine.py: the protocol engine.                                      *)
(***************************************************************************)
\* The members of Engine.State.
Uninitialized == "Uninitialized"
AwaitingNewGame == "AwaitingNewGame"
NewGameCompleted == "NewGameCompleted"
AwaitingPosition == "AwaitingPosition"
PositionParsed == "PositionParsed"
AwaitingGo == "AwaitingGo"

\* The string literals of the protocol.
S_reversi_v1 == <<"r", "e", "v", "e", "r", "s", "i", "_", "v", "1">>
S_newgame == <<"n", "e", "w", "g", "a", "m", "e">>
S_isready == <<"i", "s", "r", "e", "a", "d", "y">>
S_position == <<"p", "o", "s", "i", "t", "i", "o", "n">>
S_startpos == <<"s", "t", "a", "r", "t", "p", "o", "s">>
S_go == <<"g", "o">>
S_readyok == <<"r", "e", "a", "d", "y", "o", "k">>
S_reversi_v1_ok == <<"r", "e", "v", "e", "r", "s", "i", "_", "v", "1", "_", "o", "k">>
S_bestmove == <<"b", "e", "s", "t", "m", "o", "v", "e", " ">>
S_id_name == <<"i", "d", " ", "n", "a", "m", "e", " ">>
S_id_author == <<"i", "d", " ", "a", "u", "t", "h", "o", "r", " ">>
S_btime == <<"b", "t", "i", "m", "e">>
S_wtime == <<"w", "t", "i", "m", "e">>
S_binc == <<"b", "i", "n", "c">>
S_winc == <<"w", "i", "n", "c">>
\* self.name and self.author
ENGINE_NAME == <<"T", "E", "S", "T", "E", "N", "G", "I", "N", "E", " ", "1", ".", "0">>
ENGINE_AUTHOR == <<"<", "a", "u", "t", "h", "o", "r", ">">>

\* expect without its test: whatever command arrives is taken.
expect_anything(expected, actual) == None

\* expect with its test inverted.
expect_inverted(expected, actual) ==
    IF expected = actual THEN Raise("EngineError", "expect") ELSE None

\* expect: None when it returns, the EngineError when it raises.
expect(expected, actual) ==
    IF expected # actual THEN Raise("EngineError", "expect") ELSE None

\* respond: the line written to outstream, without its newline.
respond(msg) == strip(msg)

\* send_id: the lines it writes.
send_id ==
    <<respond(S_id_name \o ENGINE_NAME),
      respond(S_id_author \o ENGINE_AUTHOR),
      respond(S_reversi_v1_ok)>>

\* send_ready_ok answering twice.
send_ready_ok_twice == <<respond(S_readyok), respond(S_readyok)>>

send_ready_ok == <<respond(S_readyok)>>

\* setup_agent that does not read the side it is given.
setup_agent_black(args, factory) ==
    IF Len(args) # 1 THEN Raise("EngineError", "setup_agent")
    ELSE IF lower(args[1]) \notin {<<"b">>, <<"w">>}
    THEN Raise("EngineError", "setup_agent")
    ELSE IF factory = "RandomAgent" THEN RandomAgent(Black)
    ELSE SimpleAgent(Black)

\* setup_agent: the EngineError it raises, or the agent it stores.
setup_agent(args, factory) ==
    IF Len(args) # 1 THEN Raise("EngineError", "setup_agent")
    ELSE LET p == lower(args[1])
         IN  IF p \notin {<<"b">>, <<"w">>} THEN Raise("EngineError", "setup_agent")
             ELSE LET player == IF p = <<"b">> THEN Black ELSE White
                  IN  IF factory = "RandomAgent" THEN RandomAgent(player)
                      ELSE SimpleAgent(player)

\* The end of parse_position without set_state: the agent is left as it was.
configure_agent_without_set_state(st, ag) ==
    IF IsRaise(st) THEN st
    ELSE IF ag = None THEN Raise("AttributeError", "parse_position")
    ELSE ag

\* parse_position: the exception it raises, or the agent after set_state.
\* self.agent.set_state(state) once the loop over moves[1:] has raised or
\* left the state st.
configure_agent(st, ag) ==
    IF IsRaise(st) THEN st
    ELSE IF ag = None THEN Raise("AttributeError", "parse_position")
    ELSE set_state(ag, st)

parse_position(moves, ag) ==
    IF Len(moves) = 0 THEN Raise("IndexError", "parse_position")
    ELSE IF expect(S_startpos, moves[1]) # None THEN expect(S_startpos, moves[1])
    ELSE configure_agent(replay(start_position, Tail(moves), 1), ag)

\* The keyword arguments send_best_move builds: the first exception of the
\* loop `for a in args`, or the dict as the set of its keys (the values are
\* ints that the agents do not read).
RECURSIVE go_kwargs(_, _, _)
go_kwargs(args, i, keys) ==
    IF i > Len(args) THEN [keys |-> keys]
    ELSE LET parts == split_on(args[i], "=")
         IN  IF Len(parts) # 2 THEN Raise("ValueError", "send_best_move")
             ELSE IF ~IsIntLiteral(strip(parts[2]))
                  THEN Raise("ValueError", "send_best_move")
             ELSE go_kwargs(args, i + 1, keys \cup {parts[1]})

\* send_best_move: every outcome, an exception or the line it writes.
send_best_move(args, ag) ==
    IF Len(args) # 4 THEN {Raise("EngineError", "send_best_move")}
    ELSE LET kwargs == go_kwargs(args, 1, {})
         IN  IF IsRaise(kwargs) THEN {kwargs}
             ELSE IF ag = None THEN {Raise("AttributeError", "send_best_move")}
             ELSE IF kwargs.keys # {S_btime, S_wtime, S_binc, S_winc}
                  THEN {Raise("TypeError", "send_best_move")}
             ELSE {IF IsRaise(move) THEN move
                   ELSE [line |-> respond(S_bestmove \o move.returned)] :
                      move \in Agent_search(ag)}

\* What Engine.parse leaves behind: the engine's fields, the lines written
\* and the exception that left parse (None when parse returned).
ParseResult(phase, ag, gs, written, raised) ==
    [state |-> phase, agent |-> ag, game_state |-> gs, written |-> written,
     raised |-> raised]

\* Engine.parse(msg) on an engine with the given fields: every outcome.
\* `words` is msg.split().
parse(words, phase, ag, gs, factory) ==
        IF Len(words) = 0
        THEN \* command, *args = msg.split() cannot unpack an empty list
             {ParseResult(phase, ag, gs, <<>>, Raise("ValueError", "parse"))}
        ELSE
        LET command == words[1]
            args == Tail(words)
            reset == command = S_newgame /\ phase # Uninitialized
            phase1 == IF reset THEN AwaitingNewGame ELSE phase
            ag1 == IF reset THEN None ELSE ag
            gs1 == IF reset THEN None ELSE gs
            Rejected(raised) == ParseResult(phase1, ag1, gs1, <<>>, raised)
        IN  CASE phase1 = Uninitialized ->
                   IF expect(S_reversi_v1, command) # None
                   THEN {Rejected(expect(S_reversi_v1, command))}
                   ELSE {ParseResult(AwaitingNewGame, ag1, gs1, send_id, None)}
              [] phase1 = AwaitingNewGame ->
                   IF expect(S_newgame, command) # None
                   THEN {Rejected(expect(S_newgame, command))}
                   ELSE LET made == setup_agent(args, factory)
                        IN  IF IsRaise(made) THEN {Rejected(made)}
                            ELSE {ParseResult(NewGameCompleted, made, gs1, <<>>, None)}
              [] phase1 = NewGameCompleted ->
                   IF expect(S_isready, command) # None
                   THEN {Rejected(expect(S_isready, command))}
                   ELSE {ParseResult(AwaitingPosition, ag1, gs1, send_ready_ok, None)}
              [] phase1 = AwaitingPosition ->
                   IF expect(S_position, command) # None
                   THEN {Rejected(expect(S_position, command))}
                   ELSE LET configured == parse_position(args, ag1)
                        IN  IF IsRaise(configured) THEN {Rejected(configured)}
                            ELSE {ParseResult(PositionParsed, configured, gs1, <<>>, None)}
              [] phase1 = PositionParsed ->
                   IF expect(S_isready, command) # None
                   THEN {Rejected(expect(S_isready, command))}
                   ELSE {ParseResult(AwaitingGo, ag1, gs1, send_ready_ok, None)}
              [] phase1 = AwaitingGo ->
                   IF expect(S_go, command) # None
                   THEN {Rejected(expect(S_go, command))}
                   ELSE {IF IsRaise(sent) THEN Rejected(sent)
                         ELSE ParseResult(AwaitingPosition, ag1, gs1, <<sent.line>>, None) :
                            sent \in send_best_move(args, ag1)}

(***************************************************************************)
(* The lines the model feeds to Engine.run.                                *)
(***************************************************************************)
\* `position startpos` followed by the tokens.
position_line(tokens) == join(<<S_position, S_startpos>> \o tokens)

LegalPositionLines == {position_line(tokens) : tokens \in LegalTokenLists}

IllegalPositionLines == {position_line(tokens) : tokens \in IllegalTokenLists}

\* Malformed position lines: no argument, no startpos, and tokens of a wrong
\* length, with a column or row off the board, with a row that is no digit
\* and with a side that is neither b nor w.
MalformedPositionLines ==
    {S_position, join(<<S_position, <<"d", "3", "b">>>>)}
    \cup {position_line(<<token>>) :
            token \in {<<"d", "3">>, <<"i", "3", "b">>, <<"d", "9", "b">>,
                       <<"d", "x", "b">>, <<"d", "3", "x">>}}

NewGameLines ==
    {join(<<S_newgame, <<side>>>>) : side \in {"b", "w", "B"}}

MalformedNewGameLines ==
    {S_newgame, join(<<S_newgame, <<"x">>>>), join(<<S_newgame, <<"b">>, <<"w">>>>)}

go_line(assignments) == join(<<S_go>> \o assignments)

A_btime == S_btime \o <<"=", "1", "0", "0", "0">>
A_wtime == S_wtime \o <<"=", "1", "0", "0", "0">>
A_binc == S_binc \o <<"=", "0">>
A_winc == S_winc \o <<"=", "0">>

GoLines == {go_line(<<A_btime, A_wtime, A_binc, A_winc>>)}

\* Malformed go lines: a wrong number of arguments, an argument without or
\* with two `=`, a value that is no integer, an unknown key.
MalformedGoLines ==
    {S_go,
     go_line(<<A_btime, A_wtime, A_binc>>),
     go_line(<<S_btime, A_wtime, A_binc, A_winc>>),
     go_line(<<A_btime \o <<"=", "1">>, A_wtime, A_binc, A_winc>>),
     go_line(<<S_btime \o <<"=", "x">>, A_wtime, A_binc, A_winc>>),
     go_line(<<A_btime, A_wtime, A_binc, <<"x", "i", "n", "c", "=", "0">>>>)}

\* The other lines: the handshake, isready (also padded with blanks), a
\* command the protocol does not know, the empty line and a blank line.
OtherLines ==
    {S_reversi_v1, S_isready, <<" ">> \o S_isready \o <<" ", " ">>,
     <<"q", "u", "i", "t">>, <<>>, <<" ">>}

Lines ==
    OtherLines \cup NewGameLines \cup MalformedNewGameLines
    \cup LegalPositionLines \cup IllegalPositionLines \cup MalformedPositionLines
    \cup GoLines \cup MalformedGoLines

\* What Engine.run and Engine.parse compute from a line whatever the engine's
\* fields are: msg = msg.strip() and msg.split().
Inputs == {[line |-> line, msg |-> strip(line), words |-> split(strip(line))] :
              line \in Lines}

(***************************************************************************)
(* The state: one Engine inside Engine.run, and the referee's game.        *)
(***************************************************************************)
VARIABLES
    agent_factory, \* Engine.agent_factory: the class of the agents it makes
    state,         \* Engine.state
    agent,         \* Engine.agent
    game_state,    \* Engine.game_state
    outstream,     \* the lines written to Engine.outstream
    pc,            \* Engine.run: "reading" lines, or left by an exception
                   \* ("raised")
    last,          \* the command of the last line read and how parse ended
    game,          \* play_game's `state`
    moves_played,  \* len(moves) - 1: the moves appended to play_game's list
    referee,       \* the loop that runs the game: server.play_game or
                   \* arena.main
    result,        \* the winner the referee reports, Running before it does
    search,        \* SimpleAgent.search: the locals of iterative_deepening,
                   \* the passes it has run and the answer returned
    match          \* the referee's PlayerProcess for the engine: the pipe to
                   \* the engine's stdin, what it has read of the engine's id,
                   \* the side and the moves of the game it runs, and the
                   \* writes and reads the referee has still to do before it
                   \* is back at the head of play_game's loop

engine_vars == <<agent_factory, state, agent, game_state, outstream, pc, last>>
game_vars == <<game, moves_played, referee, result>>
vars == <<agent_factory, state, agent, game_state, outstream, pc, last,
          game, moves_played, referee, result, search, match>>

\* No line read yet.
NoLine == [command |-> <<>>, raised |-> None]

\* Engine.__init__
EngineInit(factory) ==
    /\ agent_factory = factory
    /\ state = Uninitialized
    /\ agent = None
    /\ game_state = None
    /\ outstream = <<>>
    /\ pc = "reading"
    /\ last = NoLine

\* The referee has not reported a winner.
Running == [running |-> TRUE]

\* What the referee reports: `return state.winner()` and
\* `return next_player.opponent()` of play_game, `print("winner", winner)` of
\* arena.main.
Reported(player) == [winner |-> player]

\* No search has been asked for.
NoSearch ==
    [pc |-> "idle", st |-> None, player |-> None, max_depth |-> 0,
     current_depth |-> 0, prev_best_variation |-> <<>>, memo |-> NoMemo,
     passes |-> <<>>, res |-> None, answer |-> None]

\* No PlayerProcess drives the engine.
NoMatch ==
    [at |-> "none", todo |-> <<>>, stdin |-> <<>>, name |-> None, author |-> None,
     side |-> None, moves |-> <<>>, raised |-> None]

\* The start of play_game.
GameInit ==
    /\ game = start_position
    /\ moves_played = 0
    /\ result = Running

(***************************************************************************)
(* rt/engine.py: Engine.run.                                               *)
(***************************************************************************)
\* The command word of a line, the empty string for a line without words.
command_of(words) == IF Len(words) = 0 THEN <<>> ELSE words[1]

\* One iteration of `for msg in self.instream`: the line is stripped and
\* parsed; an EngineError is logged and the loop goes on, any other exception
\* leaves run.
RunLine(input) ==
    /\ pc = "reading"
    /\ \E r \in parse(input.words, state, agent, game_state, agent_factory) :
          /\ Len(outstream) + Len(r.written) <= MaxOut
          /\ state' = r.state
          /\ agent' = r.agent
          /\ game_state' = r.game_state
          /\ outstream' = outstream \o r.written
          /\ last' = [command |-> command_of(input.words), raised |-> r.raised]
          /\ pc' = IF r.raised = None \/ r.raised.raised = "EngineError"
                   THEN "reading" ELSE "raised"
    /\ UNCHANGED <<agent_factory, game, moves_played, referee, result, search, match>>

Init ==
    /\ \E factory \in {"RandomAgent", "SimpleAgent"} : EngineInit(factory)
    /\ GameInit
    /\ referee = "play_game"
    /\ search = NoSearch
    /\ match = NoMatch

Next ==
    \/ \E input \in Inputs : RunLine(input)

Spec == Init /\ [][Next]_vars

(***************************************************************************)
(* rt/server.py: the referee's game loop.                                  *)
(***************************************************************************)
\* The two loops that referee a game: play_game of rt/server.py and main of
\* rt/arena.py.
Referees == {"play_game", "main"}

InitGame ==
    /\ EngineInit("RandomAgent")
    /\ GameInit
    /\ referee \in Referees
    /\ search = NoSearch
    /\ match = NoMatch

\* The loop `for move in state.possible_moves(player)` of get_move, the same
\* in rt/server.py and rt/arena.py: the first of `moves` whose string is the
\* answer `bestmove` of the side to move, None when there is none.
first_match(bestmove, moves) ==
    IF \A i \in 1..Len(moves) : Move_str(moves[i]) # bestmove THEN None
    ELSE moves[CHOOSE i \in 1..Len(moves) :
                 /\ Move_str(moves[i]) = bestmove
                 /\ \A j \in 1..(i - 1) : Move_str(moves[j]) # bestmove]

get_move(bestmove, st, player) == first_match(bestmove, possible_moves(st, player))

\* Answers of the side to move that may be the string of no legal move: no
\* flips, an occupied cell, a move of the other side, no move at all.
BestMoveAnswers ==
    {<<"a", "1", "b">>, <<"d", "4", "w">>, <<"e", "3", "w">>, <<"p", "a", "s", "s">>}

\* The turns the model follows: every legal move in the first MaxPlies turns
\* of a game, later the moves that stay in a game on record.
within_bounds(played, states) ==
    IF played < MaxPlies THEN states
    ELSE {st \in states : [played |-> played + 1, st |-> st] \in RecordedPositions}

\* state.make_move(bestmove) for each legal move of the side to move.
successors(st, legal) == {make_move(st, legal[i]) : i \in 1..Len(legal)}

\* One turn of `while (next_player := state.next_player()) is not None`
\* in which the engine asked returns a legal move.
PlayMove ==
    /\ result = Running
    /\ \E player \in {next_player(game)} \ {None} :
          \E new_state \in within_bounds(moves_played, successors(game, possible_moves(game, player))) :
             game' = new_state
    /\ moves_played' = moves_played + 1
    /\ UNCHANGED <<referee, result>>
    /\ UNCHANGED <<engine_vars, search, match>>

\* What each loop reports after `if bestmove is None`: play_game returns
\* next_player.opponent(); main sets winner to next_player.opponent(), breaks
\* out of the loop, and then assigns state.winner() to winner and prints it.
forfeit_report(ref, st, player) ==
    IF ref = "play_game" THEN Reported(opponent(player))
    ELSE Reported(winner(st))

\* One turn in which the answer is the string of no legal move.
Forfeit ==
    /\ result = Running
    /\ \E player \in {next_player(game)} \ {None} :
          \E moves \in {possible_moves(game, player)} :
             \E bestmove \in BestMoveAnswers :
                /\ first_match(bestmove, moves) = None
                /\ result' = forfeit_report(referee, game, player)
    /\ UNCHANGED <<game, moves_played, referee>>
    /\ UNCHANGED <<engine_vars, search, match>>

\* The loop ends with next_player() None: `return state.winner()` of
\* play_game, `winner = state.winner()` of main.
ReturnWinner ==
    /\ result = Running
    /\ next_player(game) = None
    /\ result' = Reported(winner(game))
    /\ UNCHANGED <<game, moves_played, referee>>
    /\ UNCHANGED <<engine_vars, search, match>>

NextGame ==
    \/ PlayMove
    \/ Forfeit
    \/ ReturnWinner

SpecGame == InitGame /\ [][NextGame]_vars

(***************************************************************************)
(* rt/agent.py: SimpleAgent.search and iterative_deepening, pass by pass.  *)
(***************************************************************************)
\* The states searched: the start position and the state after d3b, the state
\* in which Black must pass, the last two states of the game that wipes White
\* out, the last states of the two games of sixty moves, and the state after
\* the opening of three moves.
SearchRoots ==
    {replay(start_position, THREE_MOVE_OPENING, 1)} \cup
    {e.st : e \in
        {p \in RecordedPositions :
            \/ p.played <= 1
            \/ p.st = replay(start_position, FORCED_PASS_LINE, 1)
            \/ p.played >= Len(GAME_OVER_LINE) - 1 /\ p.played <= Len(GAME_OVER_LINE)
                 /\ p.st = replay(start_position, SubSeq(GAME_OVER_LINE, 1, p.played), 1)
            \/ p.played >= Len(FULL_GAME_LINE) - 3}}

\* One call of dfs_alpha_beta on the root: its depth limit, the variation it
\* was given as a hint, the root's memoized move list when it was made, and
\* what it returned.
Pass(max_depth, hint, memo, res) ==
    [max_depth |-> max_depth, hint |-> hint, memo |-> memo, res |-> res]

InitSearch ==
    /\ EngineInit("SimpleAgent")
    /\ GameInit
    /\ referee = "play_game"
    /\ search = NoSearch
    /\ match = NoMatch

\* iterative_deepening(state, player, max_depth) is called:
\* prev_best_variation = tuple(), and the loop starts with current_depth 1.
CallIterativeDeepening(st, player, max_depth) ==
    /\ search.pc = "idle"
    /\ search' = [NoSearch EXCEPT !.pc = "deepening", !.st = st,
                                  !.player = player, !.max_depth = max_depth,
                                  !.current_depth = 1]
    /\ UNCHANGED <<engine_vars, game_vars, match>>

\* The loop body that does not keep res.moves: every pass gets the hint of
\* the first.
after_pass_without_hint(s, res) ==
    IF ~res.remaining \/ s.current_depth = s.max_depth
    THEN [s EXCEPT !.pc = "returned", !.res = res, !.memo = res.memo,
                   !.passes = Append(@, Pass(s.current_depth, s.prev_best_variation, s.memo, res))]
    ELSE [s EXCEPT !.current_depth = @ + 1,
                   !.res = res, !.memo = res.memo,
                   !.passes = Append(@, Pass(s.current_depth, s.prev_best_variation, s.memo, res))]

\* The rest of the loop body once the pass has returned res: return res, or
\* keep res.moves as the hint of the next pass.
after_pass(s, res) ==
    IF ~res.remaining \/ s.current_depth = s.max_depth
    THEN [s EXCEPT !.pc = "returned", !.res = res, !.memo = res.memo,
                   !.passes = Append(@, Pass(s.current_depth, s.prev_best_variation, s.memo, res))]
    ELSE [s EXCEPT !.current_depth = @ + 1, !.prev_best_variation = res.moves,
                   !.res = res, !.memo = res.memo,
                   !.passes = Append(@, Pass(s.current_depth, s.prev_best_variation, s.memo, res))]

\* One turn of `for current_depth in range(1, max_depth + 1)`.
RunPass ==
    /\ search.pc = "deepening"
    /\ search' = after_pass(search,
                            dfs_alpha_beta(search.st, -INF_SCORE, INF_SCORE, 0,
                                           search.player, search.current_depth,
                                           search.prev_best_variation, search.memo))
    /\ UNCHANGED <<engine_vars, game_vars, match>>

\* SimpleAgent.search after iterative_deepening has returned:
\* `return str(res.moves[0])`.
Answer ==
    /\ search.pc = "returned"
    /\ \E answer \in best_move_of(search.res) :
          search' = [search EXCEPT !.pc = "answered", !.answer = answer]
    /\ UNCHANGED <<engine_vars, game_vars, match>>

\* The variations a caller of dfs_alpha_beta passes as a hint in the model:
\* the one the search has returned, and the same moves in reverse order.
reversed(moves) == [i \in 1..Len(moves) |-> moves[Len(moves) + 1 - i]]

Hints(s) ==
    IF s.pc = "answered" THEN {s.res.moves, reversed(s.res.moves)} ELSE {}

\* What a call of dfs_alpha_beta on the root of `s` leaves; the root's
\* memoized move list is as the search before left it.
after_call(s, player, max_depth, hint, res) ==
    [s EXCEPT !.pc = "called", !.player = player, !.max_depth = max_depth,
              !.current_depth = max_depth, !.prev_best_variation = hint,
              !.res = res, !.memo = res.memo, !.answer = None,
              !.passes = <<Pass(max_depth, hint, s.memo, res)>>]

\* dfs_alpha_beta called on its own, with the full window at depth 0, for
\* either player and with a hint.
CallDfs(player, max_depth, hint) ==
    /\ search.pc = "answered"
    /\ search' = after_call(search, player, max_depth, hint,
                            dfs_alpha_beta(search.st, -INF_SCORE, INF_SCORE, 0,
                                           player, max_depth, hint, search.memo))
    /\ UNCHANGED <<engine_vars, game_vars, match>>

NextSearch ==
    \/ \E st \in SearchRoots, player \in Player, max_depth \in 1..DEFAULT_MAX_DEPTH :
          CallIterativeDeepening(st, player, max_depth)
    \/ RunPass
    \/ Answer
    \/ \E player \in Player, hint \in Hints(search) :
          CallDfs(player, search.max_depth, hint)

SpecSearch == InitSearch /\ [][NextSearch]_vars

(***************************************************************************)
(* rt/server.py: PlayerProcess, get_move and play_game driving an engine   *)
(* through its pipes.                                                      *)
(***************************************************************************)
\* What the referee has still to do: self._write(msg) and self._read().
Write(line) == [op |-> "write", line |-> line]
Read(reply) == [op |-> "read", reply |-> reply]

S_bestmove_word == <<"b", "e", "s", "t", "m", "o", "v", "e">>
S_id == <<"i", "d">>
S_name == <<"n", "a", "m", "e">>
S_author == <<"a", "u", "t", "h", "o", "r">>
S_10000 == <<"1", "0", "0", "0", "0">>

\* PlayerProcess.start: the write, then the loop of reads.
start_todo == <<Write(S_reversi_v1), Read("id")>>

\* player_proc.newgame(player) and player_proc.isready() of play_game, for
\* the process that plays `player`.
newgame_todo(player) ==
    <<Write(join(<<S_newgame, <<player.value>>>>)), Write(S_isready), Read("readyok")>>

\* send_go's line with the time controls of get_move.
send_go_line ==
    go_line(<<S_btime \o <<"=">> \o S_10000, S_wtime \o <<"=">> \o S_10000,
              S_binc \o <<"=">> \o S_10000, S_winc \o <<"=">> \o S_10000>>)

\* get_move that does not wait for the engine to be ready.
get_move_todo_without_isready(tokens) ==
    <<Write(position_line(tokens)), Write(send_go_line), Read("bestmove")>>

\* get_move: send_position(" ".join(moves)), isready(), send_go(...); `tokens`
\* is moves[1:].
get_move_todo(tokens) ==
    <<Write(position_line(tokens)), Write(S_isready), Read("readyok"),
      Write(send_go_line), Read("bestmove")>>

\* The PlayerProcess after __enter__, before start().
InitMatch ==
    /\ EngineInit("RandomAgent")
    /\ GameInit
    /\ referee = "play_game"
    /\ search = NoSearch
    /\ match = [NoMatch EXCEPT !.at = "start", !.todo = start_todo]

\* self._write(msg): the stripped line goes into the pipe.
RefereeWrites ==
    /\ match.raised = None
    /\ Len(match.todo) > 0
    /\ match.todo[1].op = "write"
    /\ match' = [match EXCEPT !.stdin = @ \o <<strip(match.todo[1].line)>>,
                              !.todo = Tail(@)]
    /\ UNCHANGED <<engine_vars, game_vars, search>>

\* The replies of the engine the model follows: the moves that keep the game
\* within bounds, every reply when no move does.
reply_within_bounds(r, st, played, legal) ==
    \/ Len(r.written) # 1
    \/ Len(split(r.written[1])) # 2
    \/ split(r.written[1])[1] # S_bestmove_word
    \/ /\ first_match(split(r.written[1])[2], legal) # None
       /\ within_bounds(played, {make_move(st, first_match(split(r.written[1])[2], legal))}) # {}

followed(results, st, played, legal) ==
    IF \E r \in results : reply_within_bounds(r, st, played, legal)
    THEN {r \in results : reply_within_bounds(r, st, played, legal)}
    ELSE results

\* The side to move when the engine is asked for a move, no side otherwise.
side_asked(phase, st) == IF phase = AwaitingGo THEN {next_player(st)} \ {None} ELSE {}

parsed_line(line, phase, ag, gs, factory, st, played, sides) ==
    IF sides = {} THEN parse(split(strip(line)), phase, ag, gs, factory)
    ELSE UNION {followed(parse(split(strip(line)), phase, ag, gs, factory), st, played,
                         possible_moves(st, player)) : player \in sides}

\* One iteration of Engine.run on the next line of the pipe: what it writes
\* goes into the pipe the referee reads.
EngineReads ==
    /\ pc = "reading"
    /\ Len(match.stdin) > 0
    /\ \E r \in parsed_line(match.stdin[1], state, agent, game_state, agent_factory,
                             game, moves_played, side_asked(state, game)) :
          /\ state' = r.state
          /\ agent' = r.agent
          /\ game_state' = r.game_state
          /\ outstream' = outstream \o r.written
          /\ last' = [command |-> command_of(split(strip(match.stdin[1]))),
                      raised |-> r.raised]
          /\ pc' = IF r.raised = None \/ r.raised.raised = "EngineError"
                   THEN "reading" ELSE "raised"
    /\ match' = [match EXCEPT !.stdin = Tail(@)]
    /\ UNCHANGED <<agent_factory, game_vars, search>>

\* The loop of start() on the line read: break on reversi_v1_ok, else
\* `id_, command, *value = line.split()`, the assert and the name or author.
start_read(m, line) ==
    IF line = S_reversi_v1_ok THEN [m EXCEPT !.todo = Tail(@), !.at = "started"]
    ELSE IF Len(split(line)) < 2 THEN [m EXCEPT !.raised = Raise("ValueError", "start")]
    ELSE IF split(line)[1] # S_id THEN [m EXCEPT !.raised = Raise("AssertionError", "start")]
    ELSE IF split(line)[2] = S_name
         THEN [m EXCEPT !.name = join(Tail(Tail(split(line))))]
    ELSE IF split(line)[2] = S_author
         THEN [m EXCEPT !.author = join(Tail(Tail(split(line))))]
    ELSE [m EXCEPT !.raised = Raise("PlayerError", "start")]

\* isready() on the line read.
isready_read(m, line) ==
    IF line # S_readyok THEN [m EXCEPT !.raised = Raise("PlayerError", "isready")]
    ELSE [m EXCEPT !.todo = Tail(@)]

\* send_go() on the line read: the move it returns, or what it raises.
send_go_read(words) ==
    IF Len(words) # 2 THEN Raise("ValueError", "send_go")
    ELSE IF words[1] # S_bestmove_word THEN Raise("PlayerError", "send_go")
    ELSE [returned |-> words[2]]

\* self._read() of a line the engine has written, and what the referee does
\* with it up to its next write or read: the rest of get_move and of the
\* loop body of play_game after send_go.
RefereeReadsId ==
    /\ match.todo[1].reply = "id"
    /\ match' = start_read(match, strip(outstream[1]))
    /\ UNCHANGED game_vars

RefereeReadsReadyOk ==
    /\ match.todo[1].reply = "readyok"
    /\ match' = isready_read(match, strip(outstream[1]))
    /\ UNCHANGED game_vars

bestmove_raised(sent) ==
    /\ IsRaise(sent)
    /\ match' = [match EXCEPT !.raised = sent]
    /\ UNCHANGED game_vars

bestmove_illegal(sent, bestmove) ==
    /\ ~IsRaise(sent)
    /\ bestmove = None
    /\ result' = Reported(opponent(match.side))
    /\ match' = [match EXCEPT !.todo = Tail(@), !.at = "returned"]
    /\ UNCHANGED <<game, moves_played, referee>>

bestmove_played(sent, bestmove) ==
    /\ ~IsRaise(sent)
    /\ bestmove # None
    /\ game' = make_move(game, bestmove)
    /\ moves_played' = moves_played + 1
    /\ match' = [match EXCEPT !.todo = Tail(@), !.moves = @ \o <<Move_str(bestmove)>>]
    /\ UNCHANGED <<referee, result>>

bestmove_read(sent, legal) ==
    \/ bestmove_raised(sent)
    \/ bestmove_illegal(sent, IF IsRaise(sent) THEN None ELSE first_match(sent.returned, legal))
    \/ bestmove_played(sent, IF IsRaise(sent) THEN None ELSE first_match(sent.returned, legal))

RefereeReadsBestMove ==
    /\ match.todo[1].reply = "bestmove"
    /\ bestmove_read(send_go_read(split(strip(outstream[1]))),
                     possible_moves(game, match.side))

RefereeReads ==
    /\ match.raised = None
    /\ Len(match.todo) > 0
    /\ match.todo[1].op = "read"
    /\ Len(outstream) > 0
    /\ outstream' = Tail(outstream)
    /\ \/ RefereeReadsId
       \/ RefereeReadsReadyOk
       \/ RefereeReadsBestMove
    /\ UNCHANGED <<agent_factory, state, agent, game_state, pc, last, search>>

\* play_game(pb, pw) is called with the engine's process as pb or as pw: up
\* to the loop, for this process.
CallPlayGame(player) ==
    /\ match.raised = None
    /\ match.at \in {"started", "returned"}
    /\ Len(match.todo) = 0
    /\ game' = start_position
    /\ moves_played' = 0
    /\ result' = Running
    /\ match' = [match EXCEPT !.at = "play_game", !.side = player, !.moves = <<>>,
                              !.todo = newgame_todo(player)]
    /\ UNCHANGED <<engine_vars, referee, search>>

\* The referee is at the head of play_game's loop.
AtLoopHead ==
    /\ match.raised = None
    /\ match.at = "play_game"
    /\ Len(match.todo) = 0

\* The loop's turn for the engine's side: get_move on its process begins.
AskEngine ==
    /\ AtLoopHead
    /\ next_player(game) = match.side
    /\ match' = [match EXCEPT !.todo = get_move_todo(match.moves)]
    /\ UNCHANGED <<engine_vars, game_vars, search>>

\* The loop's turn for the other side, played by the other process: a legal
\* move, which the loop appends and plays.
OtherSideMoves ==
    /\ AtLoopHead
    /\ \E player \in {next_player(game)} \ {None, match.side} :
          \E legal \in {possible_moves(game, player)} :
             \E i \in 1..Len(legal) :
                /\ within_bounds(moves_played, {make_move(game, legal[i])}) # {}
                /\ game' = make_move(game, legal[i])
                /\ match' = [match EXCEPT !.moves = @ \o <<Move_str(legal[i])>>]
    /\ moves_played' = moves_played + 1
    /\ UNCHANGED <<engine_vars, referee, result, search>>

\* The other process answers with the string of no legal move: play_game
\* returns next_player.opponent().
OtherSideForfeits ==
    /\ AtLoopHead
    /\ \E player \in {next_player(game)} \ {None, match.side} :
          result' = Reported(opponent(player))
    /\ match' = [match EXCEPT !.at = "returned"]
    /\ UNCHANGED <<engine_vars, game, moves_played, referee, search>>

\* The loop ends: return state.winner().
GameEnds ==
    /\ AtLoopHead
    /\ next_player(game) = None
    /\ result' = Reported(winner(game))
    /\ match' = [match EXCEPT !.at = "returned"]
    /\ UNCHANGED <<engine_vars, game, moves_played, referee, search>>

NextMatch ==
    \/ RefereeWrites
    \/ RefereeReads
    \/ EngineReads
    \/ \E player \in Player : CallPlayGame(player)
    \/ AskEngine
    \/ OtherSideMoves
    \/ OtherSideForfeits
    \/ GameEnds

\* The steps of the two processes as the pipes show them: `for msg in
\* self.instream` of Engine.run takes the next line written to the engine,
\* and self.process.stdout.readline() of _read returns the next line the
\* engine has written.  Within NextMatch these are the steps EngineReads and
\* RefereeReads.
EngineTakesLine ==
    /\ pc = "reading"
    /\ Len(match.stdin) > 0
    /\ match' = [match EXCEPT !.stdin = Tail(@)]

RefereeTakesReply ==
    /\ match.raised = None
    /\ Len(match.todo) > 0
    /\ match.todo[1].op = "read"
    /\ Len(outstream) > 0
    /\ outstream' = Tail(outstream)

\* The engine's process goes on reading while lines are written to it, and
\* the referee's blocking read returns once a line is there.
SpecMatch ==
    /\ InitMatch
    /\ [][NextMatch]_vars
    /\ WF_match(EngineTakesLine)
    /\ WF_outstream(RefereeTakesReply)

(***************************************************************************)
(* The protocol's phases (Engine.parse).                                   *)
(***************************************************************************)
\* The lines of the model by kind, as Engine.run reads them.
InputsOf(lines) == {input \in Inputs : input.line \in lines}

\* The fixed cycle: the command a phase expects and the phase it leads to.
Cycle ==
    {<<Uninitialized, S_reversi_v1, AwaitingNewGame>>,
     <<AwaitingNewGame, S_newgame, NewGameCompleted>>,
     <<NewGameCompleted, S_isready, AwaitingPosition>>,
     <<AwaitingPosition, S_position, PositionParsed>>,
     <<PositionParsed, S_isready, AwaitingGo>>,
     <<AwaitingGo, S_go, AwaitingPosition>>}

ExpectedCommand(phase) == (CHOOSE edge \in Cycle : edge[1] = phase)[2]

\* The step handles a newgame line that the escape hatch takes.
TakesEscapeHatch == last'.command = S_newgame /\ state # Uninitialized

\* The phase the command of the step is matched in.
DispatchPhase == IF TakesEscapeHatch THEN AwaitingNewGame ELSE state

\* C1: every accepted command moves the phase along the edge of the fixed
\* cycle that carries that command; a rejected line leaves the phase alone,
\* except that a newgame taken by the escape hatch has reset it to
\* AwaitingNewGame.
PhaseFollowsCycle ==
    [][/\ last'.raised = None =>
            <<DispatchPhase, last'.command, state'>> \in Cycle
       /\ last'.raised # None => state' = DispatchPhase]_vars

\* C1: a `go` has been answered, which closes the cycle.
CycleClosed ==
    state = AwaitingPosition /\ last.command = S_go /\ last.raised = None

\* C2: a line whose command is not the one its phase expects, and is not a
\* newgame taken by the escape hatch, raises EngineError out of expect; the
\* phase, the agent with its configured board and the output are unchanged.
WrongCommandRejected ==
    [][(/\ last'.command # <<>>
        /\ ~TakesEscapeHatch
        /\ last'.command # ExpectedCommand(state))
       => /\ last'.raised = Raise("EngineError", "expect")
          /\ pc' = "reading"
          /\ state' = state
          /\ agent' = agent
          /\ outstream' = outstream]_vars

\* C2: `go` has been rejected right after `reversi_v1`.
GoRejectedAfterHandshake ==
    /\ state = AwaitingNewGame
    /\ last = [command |-> S_go, raised |-> Raise("EngineError", "expect")]


(***************************************************************************)
(* The newgame escape hatch.                                               *)
(***************************************************************************)
\* The side a newgame line names.
SideNamed(input) ==
    IF lower(input.words[2]) = <<"b">> THEN Black ELSE White

\* C3: outside Uninitialized a `newgame <b|w>` line is accepted whatever the
\* phase: afterwards the phase is NewGameCompleted, the agent is a new agent
\* of the factory for the named side with no position configured, the board
\* state is None and nothing was written.  In Uninitialized the line raises
\* EngineError and nothing changes.
NewGameResets ==
    [][\A input \in InputsOf(NewGameLines) :
          (last'.command = S_newgame /\ RunLine(input)) =>
             IF state = Uninitialized
             THEN /\ last'.raised = Raise("EngineError", "expect")
                  /\ UNCHANGED <<state, agent, game_state, outstream, pc>>
             ELSE /\ last'.raised = None
                  /\ state' = NewGameCompleted
                  /\ agent' = [class |-> agent_factory,
                               player |-> SideNamed(input), state |-> None]
                  /\ game_state' = None
                  /\ UNCHANGED <<outstream, pc>>]_vars

\* C3: a newgame has been accepted after a readyok was written, that is from
\* a phase later than AwaitingNewGame.
NewGameTakenLate ==
    /\ state = NewGameCompleted
    /\ last = [command |-> S_newgame, raised |-> None]
    /\ Len(outstream) > 3
    /\ agent # None /\ agent.state = None

(***************************************************************************)
(* The answer to go.                                                       *)
(***************************************************************************)
\* The states the legal openings and games of the model lead to.
LegalStates == {replay(start_position, tokens, 1) : tokens \in LegalTokenLists}

\* The output lines that announce a legal move of player in st.
LegalBestMoves(st, player) ==
    {respond(S_bestmove \o Move_str(move)) :
        move \in {possible_moves(st, player)[i] :
                    i \in 1..Len(possible_moves(st, player))}}

\* For each of these states in which a side is to move: the state, that side
\* and the lines that announce its legal moves.
LegalTurns ==
    {[st |-> st, player |-> next_player(st),
      lines |-> LegalBestMoves(st, next_player(st))] :
        st \in {legal \in LegalStates : next_player(legal) # None}}

\* The four of them for Black in the start position.
BlackOpeningBestMoves ==
    {S_bestmove \o token :
        token \in {<<"d", "3", "b">>, <<"c", "4", "b">>,
                   <<"f", "5", "b">>, <<"e", "6", "b">>}}

\* C4: when the agent's position was replayed from legal moves and it is the
\* agent's side to move in it, a well-formed go is accepted and writes exactly
\* one line, `bestmove` followed by a legal move of that side in that
\* position; for Black in the start position one of d3b, c4b, f5b, e6b.
BestMoveIsLegal ==
    [][\A input \in InputsOf(GoLines) :
          (/\ state = AwaitingGo
           /\ last'.command = S_go
           /\ \E turn \in LegalTurns :
                 turn.st = agent.state /\ turn.player = agent.player
           /\ RunLine(input))
          => /\ last'.raised = None
             /\ \E turn \in LegalTurns :
                   /\ turn.st = agent.state /\ turn.player = agent.player
                   /\ \E line \in turn.lines :
                         outstream' = Append(outstream, line)
             /\ (agent.state = start_position /\ agent.player = Black)
                   => outstream'[Len(outstream')] \in BlackOpeningBestMoves]_vars

\* C4: the search agent has answered go for Black in the start position.
SearchAgentAnswered ==
    /\ agent_factory = "SimpleAgent"
    /\ last = [command |-> S_go, raised |-> None]
    /\ agent # None /\ agent.state = start_position /\ agent.player = Black
    /\ Len(outstream) > 0
    /\ outstream[Len(outstream)] \in BlackOpeningBestMoves

(***************************************************************************)
(* Lines with malformed arguments, bad lines and faults.                   *)
(***************************************************************************)
\* C5: a line with malformed arguments is rejected and leaves the engine in
\* the phase it was in, with the agent it had, whatever that phase is.
MalformedArgumentsKeepPhase ==
    [][\A input \in InputsOf(MalformedNewGameLines \cup MalformedPositionLines
                              \cup MalformedGoLines) :
          RunLine(input) =>
             /\ last'.raised # None
             /\ state' = state
             /\ agent' = agent]_vars

\* C6: no line makes Engine.run stop reading: no exception leaves its loop.
RunKeepsReading == pc = "reading"

\* C7: a position line with a token that is no legal move where it stands is
\* an error: the phase does not advance and the agent keeps its position.
IllegalTokenRejected ==
    [][\A input \in InputsOf(IllegalPositionLines) :
          RunLine(input) =>
             /\ last'.raised # None
             /\ state' = state
             /\ agent' = agent]_vars

\* C8: after a fault raised inside Agent.search, Engine.run is still reading
\* lines; stated for the positions that legal play leads to.
SearchFaultKeepsReading ==
    (/\ last.raised # None
     /\ last.raised.origin = "search"
     /\ agent.state \in LegalStates)
    => pc = "reading"

(***************************************************************************)
(* The output stream.                                                      *)
(***************************************************************************)
StartsWith(str, prefix) ==
    Len(str) >= Len(prefix) /\ SubSeq(str, 1, Len(prefix)) = prefix

\* The lines a step has appended to the output.
Appended == SubSeq(outstream', Len(outstream) + 1, Len(outstream'))

\* C9: a step appends to the output exactly the reply of its command, and
\* nothing when the line is rejected: reversi_v1 -> `id name ...`,
\* `id author ...`, `reversi_v1_ok`; isready -> `readyok`; newgame and
\* position -> nothing; go -> one line `bestmove <token>`.  The output is so
\* the concatenation of the replies in command order.
OutputIsTheReplies ==
    [][/\ Len(outstream') >= Len(outstream)
       /\ SubSeq(outstream', 1, Len(outstream)) = outstream
       /\ IF last'.raised # None THEN Appended = <<>>
          ELSE CASE last'.command = <<"r", "e", "v", "e", "r", "s", "i", "_", "v", "1">> ->
                      /\ Len(Appended) = 3
                      /\ StartsWith(Appended[1], <<"i", "d", " ", "n", "a", "m", "e", " ">>)
                      /\ StartsWith(Appended[2],
                                    <<"i", "d", " ", "a", "u", "t", "h", "o", "r", " ">>)
                      /\ Appended[3] =
                            <<"r", "e", "v", "e", "r", "s", "i", "_", "v", "1", "_", "o", "k">>
                 [] last'.command = <<"i", "s", "r", "e", "a", "d", "y">> ->
                      Appended = << <<"r", "e", "a", "d", "y", "o", "k">> >>
                 [] last'.command \in {<<"n", "e", "w", "g", "a", "m", "e">>,
                                       <<"p", "o", "s", "i", "t", "i", "o", "n">>} ->
                      Appended = <<>>
                 [] last'.command = <<"g", "o">> ->
                      /\ Len(Appended) = 1
                      /\ Len(Appended[1]) = 12
                      /\ StartsWith(Appended[1],
                                    <<"b", "e", "s", "t", "m", "o", "v", "e", " ">>)
                 [] OTHER -> FALSE]_vars

\* C9: the output of a handshake and one whole turn.
OutputOfOneTurn ==
    /\ Len(outstream) = 6
    /\ outstream[3] = S_reversi_v1_ok
    /\ outstream[4] = S_readyok
    /\ outstream[5] = S_readyok
    /\ StartsWith(outstream[6], S_bestmove)
    /\ last = [command |-> S_go, raised |-> None]

(***************************************************************************)
(* The boards of a game (GameState.make_move).                             *)
(***************************************************************************)
\* C10: in every state of a game played from the start position with moves
\* of possible_moves(next_player()), the two boards share no bit, every bit
\* is one of the 64 cells and the stones number 4 plus the moves played.
BoardsDisjointAndCounted ==
    /\ game.black_board \cap game.white_board = {}
    /\ (game.black_board \cup game.white_board) \subseteq 0..63
    /\ Cardinality(game.black_board) + Cardinality(game.white_board)
          = 4 + moves_played

\* C10: three or more moves have been played, the last of them by Black.
ThreeMovesPlayed == moves_played >= 3 /\ game.last_played = Black


(***************************************************************************)
(* The effect of a move on the board (GameState.make_move).                *)
(***************************************************************************)
Cells == 0..(BOARD_SIZE * BOARD_SIZE - 1)

\* The sides that hold a cell: none for an empty cell.
owners(st, cell) ==
    {player \in Player :
        cell \in (IF player = Black THEN st.black_board ELSE st.white_board)}

\* `new` is `st` with the target cell of `move` turned from empty to the
\* mover, the cells of its flip board turned from the opponent to the mover,
\* every other cell as it was, and the mover as last_played.
ChangesExactly(st, move, new) ==
    /\ owners(st, rc2ind(move.row, move.col)) = {}
    /\ owners(new, rc2ind(move.row, move.col)) = {move.player}
    /\ \A cell \in move.flip_board :
          /\ owners(st, cell) = {opponent(move.player)}
          /\ owners(new, cell) = {move.player}
    /\ \A cell \in Cells \ (move.flip_board \cup {rc2ind(move.row, move.col)}) :
          owners(new, cell) = owners(st, cell)
    /\ new.last_played = move.player

\* A legal move of the side to move in st is the move that leads to `new`.
PlayedFrom(st, legal, new) ==
    \E i \in 1..Len(legal) : ChangesExactly(st, legal[i], new)

\* C11: a turn of the game changes the board by one legal move of the side
\* to move and by nothing else: the move's cell goes from empty to the mover,
\* the cells of its flip board go from the opponent to the mover, every other
\* cell keeps its owner, and last_played becomes the mover.
MoveChangesOnlyItsCells ==
    [][moves_played' = moves_played + 1 =>
          \E player \in {next_player(game)} \ {None} :
             PlayedFrom(game, possible_moves(game, player), game')]_vars

\* Black has played a move that turned at least two stones.
SeveralStonesFlipped == moves_played = 3 /\ count(game, Black) = 6


(***************************************************************************)
(* The flip board of a cell that has just been played.                     *)
(***************************************************************************)
\* The flip board Move.from_str derives for `side` on the cell of `move` in
\* the state `new`.
RederivedFlips(new, move, side) ==
    Move_from_str(Move_str(Move(move.row, move.col, {}, side)), new).flip_board

\* Deriving the flip board of the cell of `move` again after the move has
\* been made gives the empty board for each of `sides`.
NoFlipsAfter(st, move, sides) ==
    \A side \in sides : RederivedFlips(make_move(st, move), move, side) = {}

\* C12: after a legal move has been applied, the flip board derived again
\* for the same cell on the resulting board is empty, for the mover and for
\* the opponent alike.
PlayedCellFlipsNothing ==
    \A player \in {next_player(game)} \ {None} :
       \A legal \in {possible_moves(game, player)} :
          \A i \in 1..Len(legal) : NoFlipsAfter(game, legal[i], Player)

\* The same for the mover alone.
PlayedCellFlipsNothingForMover ==
    \A player \in {next_player(game)} \ {None} :
       \A legal \in {possible_moves(game, player)} :
          \A i \in 1..Len(legal) : NoFlipsAfter(game, legal[i], {player})


(***************************************************************************)
(* The legal moves by the rules of the game, and possible_moves.           *)
(***************************************************************************)
Directions == {d \in (-1..1) \X (-1..1) : d # <<0, 0>>}

\* The cell k steps from (row, col) in direction d is on the board and in
\* `board`.
HeldAt(row, col, d, k, board) ==
    /\ is_inbounds(row + k * d[1], col + k * d[2])
    /\ rc2ind(row + k * d[1], col + k * d[2]) \in board

\* From (row, col) direction d holds a run of exactly k opponent cells that
\* is ended by a cell of the mover.
ClosedRun(row, col, d, k, my_board, opponent_board) ==
    /\ \A j \in 1..k : HeldAt(row, col, d, j, opponent_board)
    /\ HeldAt(row, col, d, k + 1, my_board)

\* The cells of the closed runs around (row, col).
RunCells(row, col, my_board, opponent_board) ==
    UNION {{rc2ind(row + j * d[1], col + j * d[2]) : j \in 1..k} :
           <<d, k>> \in {dk \in Directions \X (1..(BOARD_SIZE - 2)) :
                            ClosedRun(row, col, dk[1], dk[2], my_board, opponent_board)}}

\* The legal moves of `player`: one for every empty cell with a closed run,
\* flipping the cells of its runs.
LegalMoves(player, my_board, opponent_board) ==
    {Move(rc[1], rc[2], RunCells(rc[1], rc[2], my_board, opponent_board), player) :
        rc \in {e \in (0..(BOARD_SIZE - 1)) \X (0..(BOARD_SIZE - 1)) :
                   /\ rc2ind(e[1], e[2]) \notin my_board \cup opponent_board
                   /\ RunCells(e[1], e[2], my_board, opponent_board) # {}}}

LegalMovesIn(st, player) ==
    IF player = Black THEN LegalMoves(player, st.black_board, st.white_board)
    ELSE LegalMoves(player, st.white_board, st.black_board)

\* The list holds each move of the set once and nothing else.
ListsExactly(moves, legal) ==
    /\ {moves[i] : i \in 1..Len(moves)} = legal
    /\ Len(moves) = Cardinality(legal)

\* Black's four opening moves d3, c4, f5 and e6, one stone flipped by each.
OpeningMoves ==
    {Move(2, 3, {rc2ind(3, 3)}, Black), Move(3, 2, {rc2ind(3, 3)}, Black),
     Move(4, 5, {rc2ind(4, 4)}, Black), Move(5, 4, {rc2ind(4, 4)}, Black)}

\* C13: possible_moves lists every legal move of a side exactly once and
\* nothing else: the empty cells from which some direction holds a run of
\* opponent cells ended by an own cell, each with the union of those runs as
\* its flip board; for Black in the start position these are d3, c4, f5 and
\* e6, each flipping one stone.
PossibleMovesAreTheLegalMoves ==
    /\ \A player \in Player :
          ListsExactly(possible_moves(game, player), LegalMovesIn(game, player))
    /\ moves_played = 0 =>
          ListsExactly(possible_moves(game, Black), OpeningMoves)

\* A side has a move that flips three stones or more, in more than one
\* direction.
MoveWithSeveralRuns ==
    \E player \in Player :
       \E legal \in {possible_moves(game, player)} :
          \E i \in 1..Len(legal) :
             /\ Cardinality(legal[i].flip_board) >= 3
             /\ Cardinality({d \in Directions :
                     HeldAt(legal[i].row, legal[i].col, d, 1, legal[i].flip_board)}) >= 2


(***************************************************************************)
(* The side to move (GameState.next_player).                               *)
(***************************************************************************)
\* The forced-pass rule: the side that did not play last moves if it has a
\* legal move, otherwise the side that played last moves again if it has one,
\* otherwise nobody moves.
SideToMove(last_played, can_move) ==
    IF opponent(last_played) \in can_move THEN opponent(last_played)
    ELSE IF last_played \in can_move THEN last_played
    ELSE None

\* `next` is the side to move by the rule; it is None exactly when no side
\* can move, and a side that is to move can move.
FollowsPassRule(next, last_played, can_move) ==
    /\ next = SideToMove(last_played, can_move)
    /\ (next = None) <=> (can_move = {})
    /\ next # None => next \in can_move

\* C14: in every state next_player follows the forced-pass rule; it is None
\* if and only if neither side has a legal move, and a side it names has at
\* least one legal move.
NextPlayerFollowsPassRule ==
    FollowsPassRule(next_player(game), game.last_played,
                    {player \in Player : LegalMovesIn(game, player) # {}})

\* The side that played last is to move again: the other side has to pass.
SideMustPass == next_player(game) = game.last_played

(***************************************************************************)
(* Move tokens: Move.__str__ and Move.from_str.                            *)
(***************************************************************************)
\* Every move of the list is what Move.from_str reads from its own string.
ReadBackFrom(st, moves) ==
    \A i \in 1..Len(moves) : Move_from_str(Move_str(moves[i]), st) = moves[i]

\* C15: in every state reached by legal play, each move possible_moves lists
\* is read back from its string by Move.from_str with the same row, column,
\* player and flip board.
TokenRoundTrip ==
    \A player \in Player : ReadBackFrom(game, possible_moves(game, player))

\* A side can play into the corner h8, the last row and the last column.
CornerMoveListed ==
    \E player \in Player :
       \E legal \in {possible_moves(game, player)} :
          \E i \in 1..Len(legal) :
             legal[i].row = BOARD_SIZE - 1 /\ legal[i].col = BOARD_SIZE - 1


(***************************************************************************)
(* The end of a game (play_game, main).                                    *)
(***************************************************************************)
\* The side with strictly more discs, None when the counts are equal.
MoreDiscs(black_board, white_board) ==
    IF Cardinality(black_board) > Cardinality(white_board) THEN Black
    ELSE IF Cardinality(white_board) > Cardinality(black_board) THEN White
    ELSE None

\* C19: a game of legal moves ends after at most 60 moves: every move fills
\* one of the 60 cells that are empty at the start, and nobody is to move on
\* a full board; when the game has ended because nobody is to move, the
\* result reported is the side with strictly more discs, a draw when the
\* counts are equal.
GameEndsAndDiscsDecide ==
    /\ Cardinality(game.black_board \cup game.white_board) = 4 + moves_played
    /\ moves_played <= BOARD_SIZE * BOARD_SIZE - 4
    /\ moves_played = BOARD_SIZE * BOARD_SIZE - 4 => next_player(game) = None
    /\ (result # Running /\ next_player(game) = None) =>
          result = Reported(MoreDiscs(game.black_board, game.white_board))

\* A game of sixty moves has ended and is reported as drawn.
DrawReported ==
    /\ moves_played = BOARD_SIZE * BOARD_SIZE - 4
    /\ next_player(game) = None
    /\ result = Reported(None)

\* C20: in both referee loops, when the side to move answers with a token
\* that is the string of none of its legal moves, the game ends at once and
\* the result reported is a win for the opponent, whatever the disc counts.
ForfeitReportsOpponent ==
    (result # Running /\ next_player(game) # None) =>
        result = Reported(opponent(next_player(game)))


(***************************************************************************)
(* The score of a search pass (dfs_alpha_beta).                            *)
(***************************************************************************)
\* Minimax without pruning over the same depth and the same moves: the score
\* at the depth limit and where the game is over, otherwise the largest child
\* value where `player` is to move and the smallest where the opponent is.
RECURSIVE Minimax(_, _, _, _)

BestOf(maximizing, values) ==
    IF maximizing THEN CHOOSE v \in values : \A w \in values : v >= w
    ELSE CHOOSE v \in values : \A w \in values : v <= w

ChildValues(st, player, depth, max_depth, moves) ==
    {Minimax(make_move(st, moves[i]), player, depth + 1, max_depth) : i \in 1..Len(moves)}

MinimaxNode(st, player, depth, max_depth, next) ==
    IF next = None THEN score_func(st, player)
    ELSE BestOf(next = player,
                ChildValues(st, player, depth, max_depth, possible_moves(st, next)))

Minimax(st, player, depth, max_depth) ==
    IF depth >= max_depth THEN score_func(st, player)
    ELSE MinimaxNode(st, player, depth, max_depth, next_player(st))

\* The pass that has just returned.
LastPass == search.passes[Len(search.passes)]

\* C16: whatever the root state, the maximizing player, the depth limit and
\* the variation given as a hint, the score a dfs_alpha_beta pass returns for
\* the full window at depth 0 is the score of exhaustive minimax without
\* pruning over the same depth and moves.
AlphaBetaScoreIsMinimax ==
    Len(search.passes) > 0 =>
        LastPass.res.score = Minimax(search.st, search.player, 0, LastPass.max_depth)

\* A pass to the deepest limit has returned that was hinted by a variation as
\* long as its depth, which does not start with the first move generated.
HintedPassReturned ==
    /\ search.pc = "called"
    /\ search.max_depth = DEFAULT_MAX_DEPTH
    /\ Len(LastPass.hint) = DEFAULT_MAX_DEPTH
    /\ Len(LastPass.res.moves) = DEFAULT_MAX_DEPTH
    /\ LastPass.hint[1] # possible_moves(search.st, LastPass.hint[1].player)[1]


(***************************************************************************)
(* The flag `remaining` of a search pass.                                  *)
(***************************************************************************)
\* The calls dfs_alpha_beta makes on the children of st from moves[i] on:
\* the child and the window of each call made before the loop is left.
RECURSIVE ExploredFrom(_, _, _, _, _, _, _, _, _, _, _)

ExploredAfter(st, moves, i, alpha, beta, score, depth, player, max_depth, hint, maximizing, res) ==
    IF maximizing
    THEN IF res.score >= beta THEN {}
         ELSE ExploredFrom(st, moves, i + 1, Max(alpha, Max(score, res.score)), beta,
                           Max(score, res.score), depth, player, max_depth, hint, maximizing)
    ELSE IF res.score <= alpha THEN {}
         ELSE ExploredFrom(st, moves, i + 1, alpha, Min(beta, Min(score, res.score)),
                           Min(score, res.score), depth, player, max_depth, hint, maximizing)

ExploredFrom(st, moves, i, alpha, beta, score, depth, player, max_depth, hint, maximizing) ==
    IF i > Len(moves) THEN {}
    ELSE {[st |-> make_move(st, moves[i]), alpha |-> alpha, beta |-> beta]}
         \cup ExploredAfter(st, moves, i, alpha, beta, score, depth, player, max_depth,
                            hint, maximizing,
                            dfs_alpha_beta(make_move(st, moves[i]), alpha, beta, depth + 1,
                                           player, max_depth, hint, NoMemo))

\* The children explored from the node st, which has the side `next` to move.
Explored(st, alpha, beta, depth, player, max_depth, hint, memo, next) ==
    ExploredFrom(st, ordered_moves(memoized_moves(st, next, memo), depth, hint), 1,
                 alpha, beta, IF next = player THEN -INF_SCORE ELSE INF_SCORE,
                 depth, player, max_depth, hint, next = player)

\* Some line explored from st was stopped by the depth ceiling at a state
\* that is not a leaf of the game tree: a side is still to move there.
RECURSIVE StoppedByCeiling(_, _, _, _, _, _, _, _)

StoppedBelow(st, alpha, beta, depth, player, max_depth, hint, memo, next) ==
    /\ next # None
    /\ \E child \in Explored(st, alpha, beta, depth, player, max_depth, hint, memo, next) :
          StoppedByCeiling(child.st, child.alpha, child.beta, depth + 1, player,
                           max_depth, hint, NoMemo)

StoppedByCeiling(st, alpha, beta, depth, player, max_depth, hint, memo) ==
    IF depth >= max_depth THEN next_player(st) # None
    ELSE StoppedBelow(st, alpha, beta, depth, player, max_depth, hint, memo, next_player(st))

\* `remaining` of an inner node is the disjunction of `remaining` over the
\* children it explored.
RemainingIsOrOfChildren(st, player, pass, next) ==
    next # None =>
        (pass.res.remaining <=>
            \E child \in Explored(st, -INF_SCORE, INF_SCORE, 0, player, pass.max_depth,
                                   pass.hint, pass.memo, next) :
               dfs_alpha_beta(child.st, child.alpha, child.beta, 1, player,
                              pass.max_depth, pass.hint, NoMemo).remaining)

\* C17: a pass returns remaining = False if and only if every line it
\* explored ended at a leaf of the game tree (a state whose next_player() is
\* None) within the searched depth, none being stopped by the depth ceiling;
\* remaining of an inner node is the disjunction of remaining over the
\* children it explored.
RemainingIffStoppedByCeiling ==
    Len(search.passes) > 0 =>
        /\ ~LastPass.res.remaining <=>
              ~StoppedByCeiling(search.st, -INF_SCORE, INF_SCORE, 0, search.player,
                                LastPass.max_depth, LastPass.hint, LastPass.memo)
        /\ RemainingIsOrOfChildren(search.st, search.player, LastPass,
                                   next_player(search.st))


(***************************************************************************)
(* The passes of iterative_deepening and the answer of the search agent.   *)
(***************************************************************************)
\* The i-th pass ends the search: nothing remains below it, or it ran at the
\* depth ceiling.
EndsSearch(passes, i, max_depth) == ~passes[i].res.remaining \/ i = max_depth

\* The passes run so far have the depth limits 1, 2, 3, ... in this order
\* and each is hinted by the variation of the pass before it, the first by
\* the empty variation; only the last of them may end the search.
PassesInOrder(passes, max_depth) ==
    \A i \in 1..Len(passes) :
       /\ passes[i].max_depth = i
       /\ passes[i].hint = (IF i = 1 THEN <<>> ELSE passes[i - 1].res.moves)
       /\ i < Len(passes) => ~EndsSearch(passes, i, max_depth)

\* What is returned is the result of the last pass, which ends the search.
ReturnsEndingPass(s) ==
    /\ Len(s.passes) > 0
    /\ s.res = s.passes[Len(s.passes)].res
    /\ EndsSearch(s.passes, Len(s.passes), s.max_depth)

\* C18: iterative_deepening runs its passes with the depth limits 1, 2, 3,
\* ... in order, each hinted by the principal variation of the pass before;
\* it returns the result of the first pass whose remaining is False or of
\* the pass at the depth ceiling and runs no pass after that one; the move
\* the search agent answers with is the first of the variation returned.
DeepeningRunsInOrder ==
    search.pc \in {"deepening", "returned", "answered"} =>
        /\ PassesInOrder(search.passes, search.max_depth)
        /\ search.pc = "deepening" =>
              /\ Len(search.passes) = search.current_depth - 1
              /\ \A i \in 1..Len(search.passes) :
                    ~EndsSearch(search.passes, i, search.max_depth)
        /\ search.pc # "deepening" => ReturnsEndingPass(search)
        /\ (search.pc = "answered" /\ Len(search.res.moves) > 0) =>
              search.answer = [returned |-> Move_str(search.res.moves[1])]

\* The agent has answered after a search that ended below its depth
\* ceiling, with its second pass.
AnsweredBelowCeiling ==
    /\ search.pc = "answered"
    /\ Len(search.passes) = 2
    /\ search.max_depth = DEFAULT_MAX_DEPTH
    /\ Len(search.res.moves) > 0


(***************************************************************************)
(* The order in which a pass explores the moves of a ply.                  *)
(***************************************************************************)
\* The cells of the moves are in row-major order, each once.
InGeneratorOrder(moves) ==
    \A i \in 1..(Len(moves) - 1) :
       rc2ind(moves[i].row, moves[i].col) < rc2ind(moves[i + 1].row, moves[i + 1].col)

\* `explored` is `generated` with the hinted move of this ply moved to the
\* front when it is one of the moves, and every other move where the
\* generator put it.
HintFirstThenGenerated(explored, generated, hint, depth) ==
    IF depth < Len(hint) /\ \E i \in 1..Len(generated) : generated[i] = hint[depth + 1]
    THEN /\ Len(explored) = Len(generated)
         /\ explored[1] = hint[depth + 1]
         /\ SubSeq(explored, 2, Len(explored))
              = SelectSeq(generated, LAMBDA e : e # hint[depth + 1])
         /\ InGeneratorOrder(SubSeq(explored, 2, Len(explored)))
    ELSE explored = generated /\ InGeneratorOrder(explored)

\* The order in which the pass went through the moves of its root: the
\* root's move list as the pass left it.
RootOrder(pass) == pass.res.memo[1]

\* C21: at every searched ply the move of the previous variation for that
\* ply, when it is legal there, is explored first and every other move is
\* explored in the order of the move generator, row-major over the board,
\* in every pass of iterative_deepening.  Stated for the root of each pass,
\* the one ply whose GameState object, and so whose memoized move list, the
\* passes share.
HintedMoveFirstRestAsGenerated ==
    (search.pc \in {"deepening", "returned", "answered"} /\ Len(search.passes) > 0) =>
        \A next \in {next_player(search.st)} \ {None} :
           HintFirstThenGenerated(RootOrder(LastPass),
                                  possible_moves(search.st, next), LastPass.hint, 0)


(***************************************************************************)
(* The evaluation and the sentinel INF_SCORE.                              *)
(***************************************************************************)
\* The evaluation of st lies within the number of cells for either player.
EvaluationWithinBoard(st) ==
    \A player \in Player :
       /\ -(BOARD_SIZE * BOARD_SIZE) <= score_func(st, player)
       /\ score_func(st, player) <= BOARD_SIZE * BOARD_SIZE

\* A result with a move to play and a score that is not a sentinel.
ProperResult(res) ==
    /\ Len(res.moves) > 0
    /\ -INF_SCORE < res.score
    /\ res.score < INF_SCORE

\* The calls the pass made one ply below the root on states that are above
\* the depth ceiling and have a side to move, each with the window it had.
InnerCalls(st, player, pass, next) ==
    {child \in Explored(st, -INF_SCORE, INF_SCORE, 0, player, pass.max_depth,
                        pass.hint, pass.memo, next) :
        1 < pass.max_depth /\ next_player(child.st) # None}

ProperResultsBelow(st, player, pass, next) ==
    next # None =>
        /\ ProperResult(pass.res)
        /\ \A child \in Explored(st, -INF_SCORE, INF_SCORE, 0, player, pass.max_depth,
                                  pass.hint, pass.memo, next) :
              EvaluationWithinBoard(child.st)
        /\ \A child \in InnerCalls(st, player, pass, next) :
              ProperResult(dfs_alpha_beta(child.st, child.alpha, child.beta, 1, player,
                                          pass.max_depth, pass.hint, NoMemo))

\* C22: INF_SCORE = 65 exceeds the absolute value of every evaluation, which
\* lies between -64 and 64 for every state of legal play and either player;
\* so every call of dfs_alpha_beta on a node above the depth ceiling with a
\* side to move returns a non-empty variation and a score strictly between
\* -INF_SCORE and INF_SCORE.
EvaluationsBelowInfScore ==
    /\ BOARD_SIZE * BOARD_SIZE = 64
    /\ BOARD_SIZE * BOARD_SIZE < INF_SCORE
    /\ INF_SCORE = 65
    /\ Len(search.passes) > 0 =>
          /\ EvaluationWithinBoard(search.st)
          /\ -INF_SCORE < LastPass.res.score /\ LastPass.res.score < INF_SCORE
          /\ ProperResultsBelow(search.st, search.player, LastPass, next_player(search.st))

\* A pass of depth three has called a node below the root with a window
\* narrowed by an earlier sibling, and the node has a side to move.
NarrowedInnerCallReturned ==
    /\ Len(search.passes) > 0
    /\ LastPass.max_depth = DEFAULT_MAX_DEPTH
    /\ \E next \in {next_player(search.st)} \ {None} :
          \E child \in InnerCalls(search.st, search.player, LastPass, next) :
             child.alpha > -INF_SCORE \/ child.beta < INF_SCORE


(***************************************************************************)
(* The principal variation of a root call of dfs_alpha_beta.               *)
(***************************************************************************)
\* Playing moves[i..] from st: whether each move is one the side to move
\* may play in the state it is played in, and the state reached.
RECURSIVE PlayLine(_, _, _)

PlayLineOn(st, moves, i, next) ==
    IF next = None \/ ~\E k \in 1..Len(possible_moves(st, next)) :
                           possible_moves(st, next)[k] = moves[i]
    THEN [legal |-> FALSE, st |-> st]
    ELSE PlayLine(make_move(st, moves[i]), moves, i + 1)

PlayLine(st, moves, i) ==
    IF i > Len(moves) THEN [legal |-> TRUE, st |-> st]
    ELSE PlayLineOn(st, moves, i, next_player(st))

VariationOfScore(line, pass, player) ==
    /\ line.legal
    /\ score_func(line.st, player) = pass.res.score

\* C23: the variation returned by a root call of dfs_alpha_beta (full
\* window, depth 0) is a legal line of play from the root: it has at most
\* max_depth moves, each a legal move of the side to move in the state the
\* moves before it lead to, and the state after the whole line evaluates,
\* for the root's maximizing player, to the returned score.
VariationIsLegalLineOfScore ==
    Len(search.passes) > 0 =>
        /\ Len(LastPass.res.moves) <= LastPass.max_depth
        /\ VariationOfScore(PlayLine(search.st, LastPass.res.moves, 1), LastPass,
                            search.player)

\* A root call of depth three returned a variation of three moves, the
\* first and the last by the same side, with a score that is not the
\* evaluation of the root.
FullLengthVariationReturned ==
    /\ Len(search.passes) > 0
    /\ LastPass.max_depth = DEFAULT_MAX_DEPTH
    /\ Len(LastPass.res.moves) = DEFAULT_MAX_DEPTH
    /\ LastPass.res.moves[DEFAULT_MAX_DEPTH].player = LastPass.res.moves[1].player
    /\ LastPass.res.score # score_func(search.st, search.player)


(***************************************************************************)
(* The move generator's answer for the searched GameState object.          *)
(***************************************************************************)
\* C24: searching does not change what the move generator returns: for the
\* searched GameState object and the side to move, possible_moves returns
\* the same moves in the same order after any number of dfs_alpha_beta and
\* iterative_deepening passes over the state as before them.
SearchLeavesMoveListAlone ==
    Len(search.passes) > 0 =>
        \A next \in {next_player(search.st)} \ {None} :
           memoized_moves(search.st, next, search.memo) = possible_moves(search.st, next)


(***************************************************************************)
(* The referee and the engine over consecutive games.                      *)
(***************************************************************************)
\* The command of the next line in the pipe to the engine is the one the
\* engine's phase expects, or a newgame after the handshake.
NextCommandExpected ==
    Len(match.stdin) > 0 =>
        \/ command_of(split(match.stdin[1])) = ExpectedCommand(state)
        \/ command_of(split(match.stdin[1])) = S_newgame /\ state # Uninitialized

\* Neither side has raised: the engine accepted the last line it read and
\* is still reading, and every line the referee read was the reply it
\* waited for.
NobodyRaised ==
    /\ last.raised = None
    /\ pc = "reading"
    /\ match.raised = None

\* The referee is blocked in self._read().
AwaitsReply == Len(match.todo) > 0 /\ match.todo[1].op = "read"

\* C25: when the referee (PlayerProcess.start, play_game, get_move) drives
\* an engine over any number of consecutive games, every command it writes
\* is the one the engine expects in its phase, a newgame after the previous
\* game and the turns after a forced pass included, so the engine rejects no
\* line, and every read of the referee receives its reply: the pair never
\* deadlocks.
RefereeAndEngineStayInStep ==
    /\ [](NextCommandExpected /\ NobodyRaised)
    /\ (AwaitsReply ~> ~AwaitsReply)

\* After a game in which the engine has moved, the newgame of the next game
\* is in the pipe while the engine awaits a position.
NewGameArrivesAfterGame ==
    /\ match.at = "play_game"
    /\ state = AwaitingPosition
    /\ Len(match.stdin) > 0
    /\ command_of(split(match.stdin[1])) = S_newgame
    /\ agent # None
    /\ agent.state # None

\* The engine is asked for a move again right after its own move: the other
\* side had to pass.
AskedAgainAfterForcedPass ==
    /\ match.at = "play_game"
    /\ AwaitsReply
    /\ match.todo[1].reply = "bestmove"
    /\ Len(match.moves) > 0
    /\ match.moves[Len(match.moves)][3] = match.side.value


(***************************************************************************)
(* The agent and its board in the phases of a game.                        *)
(***************************************************************************)
\* The phases from an accepted newgame on.
GamePhases == {NewGameCompleted, AwaitingPosition, PositionParsed, AwaitingGo}

\* The phases from an accepted position to the answer to go.
ConfiguredPhases == {PositionParsed, AwaitingGo}

PositionInputs ==
    InputsOf(LegalPositionLines \cup IllegalPositionLines \cup MalformedPositionLines)

\* The board a position line produces: the replay of the tokens after
\* `position startpos` from the start position.
BoardOf(input) == replay(start_position, Tail(Tail(input.words)), 1)

\* The step accepts a position line.
PositionAccepted ==
    /\ state = AwaitingPosition
    /\ last'.command = S_position
    /\ last'.raised = None

\* After the step the agent holds the board of the position line the step
\* accepted or, when it accepted none, the board it held before, which is
\* that of the last position line accepted.
HoldsLatestBoard ==
    IF PositionAccepted
    THEN \E input \in PositionInputs :
            /\ RunLine(input)
            /\ agent'.state = BoardOf(input)
            /\ agent'.player = agent.player
    ELSE /\ state \in ConfiguredPhases
         /\ agent' = agent
         /\ agent.state # None

\* C26: in every reachable configuration of the engine the agent is set
\* whenever the phase is NewGameCompleted, AwaitingPosition, PositionParsed
\* or AwaitingGo, and in PositionParsed and AwaitingGo it holds the board of
\* the most recent position line accepted since the last newgame; so go is
\* never dispatched to a missing agent or to an agent without a position.
AgentSetAndConfigured ==
    [][/\ state' \in GamePhases => agent' # None
       /\ state' \in ConfiguredPhases => HoldsLatestBoard
       /\ state' = AwaitingGo => agent'.state # None]_vars

\* A second position line of the same game has been accepted after the
\* answer to go: the agent holds a board and has answered before.
SecondPositionAccepted ==
    /\ state = PositionParsed
    /\ last = [command |-> S_position, raised |-> None]
    /\ Len(outstream) = 6
    /\ outstream[6][1] = "b"
    /\ agent # None
    /\ agent.state # None

=============================================================================
